---------------------------- MODULE Spec2Model ----------------------------
(***************************************************************************)
(* A model of naucse_archive: the container image cache (ImageMaker), the  *)
(* sandboxed call (get_data), the lesson resolver (save_lessons), the path *)
(* containment check (joinpath) and the promotion of a finished archive    *)
(* (archive).                                                              *)
(*                                                                         *)
(* Text is modelled as a sequence of one-character strings, a path as a    *)
(* record [root, parts] whose parts are such sequences.                    *)
(***************************************************************************)
EXTENDS Integers, Sequences, FiniteSets, TLC

VARIABLES
    \* ---- joinpath called on its own (specification SpecPath)
    symlinks,       \* the symbolic links of the file system: a set of [from, to]
    jp_base,        \* joinpath's argument base
    jp_end,         \* joinpath's argument end
    jp_out,         \* what the call gave: [ok, path]
    jp_pc,          \* "call", "checked", "written", "raised"
    jp_written      \* the paths the caller wrote to

pathVars == <<symlinks, jp_base, jp_end, jp_out, jp_pc, jp_written>>

VARIABLES
    \* ---- save_lessons (specification SpecLessons)
    world,          \* what the renderer in the container answers (the course)
    result_path,    \* the directory the archive is built in
    lesson_slugs,   \* the slugs still to fetch
    done_slugs,     \* _done_slugs
    result,         \* the keys of the dict result
    tries,          \* how many values range(50) has given (try_number + 1)
    data,           \* the items of data not yet handled in this round
    ls_pc,          \* "for", "items", "returned", "raised"
    ls_err,         \* the exception raised, "" if none
    dirs,           \* the directories of the file system
    files,          \* the files of the file system
    fetches,        \* history: each get_lessons call, [slugs, resolved, pending]
    checked,        \* history: [base, path] of each joinpath that returned
    touched         \* history: [slug, op, path, name, src, over] of each mkdir, write
                    \* and copy; over tells that the file was there before the write

lessonVars == <<world, result_path, lesson_slugs, done_slugs, result, tries, data,
                ls_pc, ls_err, dirs, files, fetches, checked, touched>>

VARIABLES
    \* ---- ImageMaker and get_data (specification SpecRuntime)
    images,         \* the names of the images the container runtime holds
    tempdirs,       \* the temporary directories that exist
    im,             \* the ImageMaker in use: [name, tempdir, containerfile, noop]
    gd_tempdir,     \* the exchange directory of the get_data call in progress
    rt_pc,          \* "idle", "with" (inside the with block), "run" (container running)
    ops             \* history: one record for each operation begun

rtVars == <<images, tempdirs, im, gd_tempdir, rt_pc, ops>>

VARIABLES
    \* ---- archive and the loop of main (specification SpecArchive)
    output,         \* the output tree: for each course slug [exists, entries]
    before,         \* history: the output tree when main began
    ar_course,      \* the index of the course being archived
    ar_pc,          \* the stage archive is at, or "finished", "aborted"
    ar_err,         \* the exception archive is raising, "" if none
    staged,         \* the entries of result_path
    ar_failed,      \* the entries copytree could not copy
    ar_result,      \* the keys of main's dict result
    ar_attempted    \* history: the indices of the courses archive was called for

arVars == <<output, before, ar_course, ar_pc, ar_err, staged, ar_failed, ar_result,
            ar_attempted>>

VARIABLES
    \* ---- save_course (specification SpecCourse)
    api_version,    \* info['api_version'] as get_course answers it
    sc_pc,          \* "get_course", "version", "save_lessons", "returned", "raised"
    sc_err,         \* the exception save_course raises: [type, arg]
    info_version    \* info['api_version'] as save_course leaves it

courseVars == <<api_version, sc_pc, sc_err, info_version>>

VARIABLES
    \* ---- fixes.fix_old_requirements_txt (specification SpecFixes)
    reqs_in,        \* the argument: the text of requirements.txt
    reqs_out,       \* the value returned
    fx_pc           \* "call", "returned"

fixVars == <<reqs_in, reqs_out, fx_pc>>

VARIABLES
    \* ---- the images of a course (specification SpecImage); the images the
    \* container runtime holds are the variable images above
    cache,          \* the files under cache_path: a set of [dir, file, text]
    gi,             \* the archive run in progress: its inputs, its position, its locals
    gi_log,         \* history: what the run in progress did, in order
    helper_log,     \* history: each run of the resolution helper, over all runs
    gi_names,       \* history: what get_image_from_requirements was given and gave
    gi_failed       \* history: the names whose build failed

imageVars == <<cache, gi, gi_log, helper_log, gi_names, gi_failed>>

VARIABLES
    \* ---- archive runs side by side on one cache (specification SpecCache);
    \* the files under cache_path are the variable cache above
    pr              \* the runs: for each its listing, its position, its locals

cacheVars == <<pr>>

\* the variables of the specifications that follow the first four
restVars == <<courseVars, fixVars, imageVars, cacheVars>>

\* the variables save_course, fix_old_requirements_txt and the image
\* functions leave alone
otherThanCourse == <<fixVars, imageVars, cacheVars>>
otherThanFixes == <<courseVars, imageVars, cacheVars>>
otherThanImage == <<courseVars, fixVars, cacheVars>>

vars == <<pathVars, lessonVars, rtVars, arVars, restVars>>

(***************************************************************************)
(* Bounds of the model.                                                    *)
(***************************************************************************)
MaxFragLen == 6

(***************************************************************************)
(* Text                                                                    *)
(***************************************************************************)
\* the characters a path fragment is made of in the model
FragChars == {"a", ".", "/"}

\* every text of at most n characters over the alphabet cs
Texts(cs, n) == UNION {[1..k -> cs] : k \in 0..n}

\* str.startswith
IsPrefix(p, s) == Len(p) <= Len(s) /\ SubSeq(s, 1, Len(p)) = p

Front(s) == IF Len(s) = 0 THEN s ELSE SubSeq(s, 1, Len(s) - 1)

(***************************************************************************)
(* pathlib                                                                 *)
(***************************************************************************)
RECURSIVE SplitFrom(_, _, _, _)
\* the pieces of s between slashes, from position i on, cur being the piece
\* under construction; pathlib drops empty pieces and "." pieces
SplitFrom(s, i, cur, acc) ==
    LET close == IF cur = <<>> \/ cur = <<".">> THEN acc ELSE Append(acc, cur)
    IN  IF i > Len(s) THEN close
        ELSE IF s[i] = "/" THEN SplitFrom(s, i + 1, <<>>, close)
        ELSE SplitFrom(s, i + 1, Append(cur, s[i]), acc)

Split(s) == SplitFrom(s, 1, <<>>, <<>>)

\* the root of a path text: "" relative, "//" for exactly two leading slashes
RootOf(s) ==
    IF Len(s) = 0 \/ s[1] # "/" THEN ""
    ELSE IF Len(s) >= 2 /\ s[2] = "/" /\ (Len(s) = 2 \/ s[3] # "/") THEN "//"
    ELSE "/"

\* Path.__truediv__: an absolute right operand replaces the left one
PathJoin(base, end) ==
    IF RootOf(end) # ""
    THEN [root |-> RootOf(end), parts |-> Split(end)]
    ELSE [root |-> base.root, parts |-> base.parts \o Split(end)]

\* the link at path p, if any
LinkTarget(links, p) ==
    IF \E l \in links : l.from = p
    THEN (CHOOSE l \in links : l.from = p).to
    ELSE p

RECURSIVE ResolveFrom(_, _, _, _)
\* Path.resolve(): the parts are walked left to right, ".." steps up (the
\* root is its own parent) and a part that is a link is replaced by its target
ResolveFrom(links, p, i, acc) ==
    IF i > Len(p.parts) THEN acc
    ELSE IF p.parts[i] = <<".", ".">>
         THEN ResolveFrom(links, p, i + 1, [acc EXCEPT !.parts = Front(@)])
         ELSE ResolveFrom(links, p, i + 1,
                  LinkTarget(links, [acc EXCEPT !.parts = Append(@, p.parts[i])]))

Resolve(links, p) == ResolveFrom(links, p, 1, [root |-> p.root, parts |-> <<>>])

\* Path.parents: the proper ancestors
Parents(p) == {[root |-> p.root, parts |-> SubSeq(p.parts, 1, k)] : k \in 0..(Len(p.parts) - 1)}

RECURSIVE JoinParts(_, _)
JoinParts(parts, i) ==
    IF i > Len(parts) THEN <<>>
    ELSE (IF i > 1 THEN <<"/">> ELSE <<>>) \o parts[i] \o JoinParts(parts, i + 1)

\* str(path)
Str(p) ==
    (IF p.root = "//" THEN <<"/", "/">> ELSE IF p.root = "/" THEN <<"/">> ELSE <<>>)
    \o JoinParts(p.parts, 1)

(***************************************************************************)
(* joinpath                                                                *)
(***************************************************************************)
\* a mutation: the containment test is left out
joinpath_unchecked(links, base, end) ==
    [ok |-> TRUE, path |-> Resolve(links, PathJoin(base, end))]

\* a mutation: the result may be base itself
joinpath_or_equal(links, base, end) ==
    LET resolved == Resolve(links, PathJoin(base, end))
    IN  [ok |-> base \in Parents(resolved) \/ base = resolved, path |-> resolved]

\* a mutation: only a direct child of base is accepted
joinpath_direct_child(links, base, end) ==
    LET resolved == Resolve(links, PathJoin(base, end))
    IN  [ok |-> resolved.parts # <<>> /\ base = [resolved EXCEPT !.parts = Front(@)],
         path |-> resolved]

\* joinpath(base, end): ok is FALSE where the code raises ValueError(end)
joinpath(links, base, end) ==
    LET resolved == Resolve(links, PathJoin(base, end))
    IN  [ok |-> base \in Parents(resolved), path |-> resolved]

(***************************************************************************)
(* Text of the resolver                                                    *)
(***************************************************************************)
\* the characters of the model in code point order
CharOrder == <<" ", "-", ".", "/", "0", "1", "2", "3", "4", "5", "6", "7", "8", "9",
               "A", "F", "_", "a", "b", "c", "e", "f", "h", "i", "l", "m", "n", "o",
               "p", "r", "s", "t", "u", "w", "x", "y", "z">>

Ord(c) == CHOOSE i \in 1..Len(CharOrder) : CharOrder[i] = c

\* s < t as Python compares str
TextLess(s, t) ==
    \E k \in 1..(Len(s) + 1) :
        /\ k <= Len(t)
        /\ \A j \in 1..(k - 1) : s[j] = t[j]
        /\ (k = Len(s) + 1 \/ Ord(s[k]) < Ord(t[k]))

RECURSIVE Sorted(_)
\* sorted(set of texts)
Sorted(S) ==
    IF S = {} THEN <<>>
    ELSE LET m == CHOOSE x \in S : \A y \in S \ {x} : TextLess(x, y)
         IN  <<m>> \o Sorted(S \ {m})

Range(f) == {f[i] : i \in DOMAIN f}

\* str.lower() on one character
LowerChar(c) == CASE c = "A" -> "a" [] c = "F" -> "f" [] OTHER -> c

\* str.lower()
Lower(s) == [i \in 1..Len(s) |-> LowerChar(s[i])]

\* the characters the class [a-z0-9./_-] matches
NameChars == {"a", "b", "c", "d", "e", "f", "g", "h", "i", "j", "k", "l", "m", "n",
              "o", "p", "q", "r", "s", "t", "u", "v", "w", "x", "y", "z",
              "0", "1", "2", "3", "4", "5", "6", "7", "8", "9", ".", "/", "_", "-"}

RECURSIVE SubRuns(_, _, _)
\* re.sub('[^a-z0-9./_-]+', '-', s): each run of other characters becomes one "-"
SubRuns(s, i, inRun) ==
    IF i > Len(s) THEN <<>>
    ELSE IF s[i] \in NameChars THEN <<s[i]>> \o SubRuns(s, i + 1, FALSE)
    ELSE (IF inRun THEN <<>> ELSE <<"-">>) \o SubRuns(s, i + 1, TRUE)

Sanitize(s) == SubRuns(s, 1, FALSE)

DigitChars == <<"0", "1", "2", "3", "4", "5", "6", "7", "8", "9">>

RECURSIVE Decimal(_)
\* str(n) for n >= 0
Decimal(n) == IF n < 10 THEN <<DigitChars[n + 1]>>
              ELSE Decimal(n \div 10) \o <<DigitChars[(n % 10) + 1]>>

LessonsName == <<"l", "e", "s", "s", "o", "n", "s">>
HtmlSuffix == <<".", "h", "t", "m", "l">>
SolutionPrefix == <<"s", "o", "l", "u", "t", "i", "o", "n", "-">>
StaticName == <<"s", "t", "a", "t", "i", "c">>

(***************************************************************************)
(* fixes.find_lesson_slugs: the content of a page is modelled by the links *)
(* (href and src attributes) of its markup, each a parsed URL.             *)
(***************************************************************************)
\* a mutation: the scheme and the path of the link are not looked at
find_lesson_slugs_every_link(content) == {content[i].lesson : i \in DOMAIN content}

find_lesson_slugs(content) ==
    {content[i].lesson : i \in {j \in DOMAIN content :
                                  content[j].scheme = "naucse" /\ content[j].path = "page"}}

(***************************************************************************)
(* The file system                                                         *)
(***************************************************************************)
\* p or one of its ancestors
SelfAndParents(p) == Parents(p) \cup {p}

\* Path.mkdir(parents=True, exist_ok=exist_ok) can be done
CanMkdir(st, p, exist_ok) ==
    /\ p \notin st.files
    /\ Parents(p) \cap st.files = {}
    /\ (p \in st.dirs => exist_ok)

\* Path.write_text and shutil.copy can write the file p
CanWrite(st, p) ==
    /\ p \notin st.dirs
    /\ p.parts # <<>>
    /\ [p EXCEPT !.parts = Front(@)] \in st.dirs

(***************************************************************************)
(* save_lessons, one lesson: st is [dirs, files, checked, touched, slugs,  *)
(* err], err being the exception raised, "" while there is none.           *)
(***************************************************************************)
Fail(st, e) == [st EXCEPT !.err = e]

\* the source of an operation that copies nothing
NoSource == [root |-> "", parts |-> <<>>]

\* a mutation: the destination is not looked at
DestExists_never(st, p) == FALSE

\* destpath.exists()
DestExists(st, p) == p \in st.dirs \cup st.files

Note(st, base, p) == [st EXCEPT !.checked = @ \cup {[base |-> base, path |-> p]}]

\* content_path = joinpath(outpath, fname); content_path.write_text(content);
\* lesson_slugs.update(fixes.find_lesson_slugs(content))
SaveContent(st, links, slug, outpath, fname, content) ==
    LET r == joinpath(links, outpath, fname)
    IN  IF ~r.ok THEN Fail(st, "ValueError: joinpath")
        ELSE IF ~CanWrite(st, r.path) THEN Fail(Note(st, outpath, r.path), "OSError")
        ELSE [Note(st, outpath, r.path) EXCEPT
                 !.files = @ \cup {r.path},
                 !.touched = @ \cup {[slug |-> slug, op |-> "write", path |-> r.path,
                                       name |-> fname, src |-> NoSource,
                                       over |-> r.path \in st.files]},
                 !.slugs = @ \cup find_lesson_slugs(content)]

RECURSIVE SaveSolutions(_, _, _, _, _, _)
\* for index, solution in enumerate(page.get('solutions', ()))
SaveSolutions(st, links, slug, outpath, solutions, index) ==
    IF st.err # "" \/ index >= Len(solutions) THEN st
    ELSE SaveSolutions(
             SaveContent(st, links, slug, outpath,
                         SolutionPrefix \o Decimal(index) \o HtmlSuffix,
                         solutions[index + 1]),
             links, slug, outpath, solutions, index + 1)

RECURSIVE SavePages(_, _, _, _, _, _)
\* for name, page in lesson['pages'].items()
SavePages(st, links, slug, outpath, pages, i) ==
    IF st.err # "" \/ i > Len(pages) THEN st
    ELSE SavePages(
             SaveSolutions(
                 SaveContent(st, links, slug, outpath,
                             pages[i].name \o HtmlSuffix, pages[i].content),
                 links, slug, outpath, pages[i].solutions, 0),
             links, slug, outpath, pages, i + 1)

\* the body of: for name, info in lesson['static_files'].items()
SaveStatic(st, links, slug, outpath, worktree, wfiles, file) ==
    LET sd == joinpath(links, outpath, StaticName)
    IN  IF ~sd.ok THEN Fail(st, "ValueError: joinpath")
        ELSE IF ~CanMkdir(st, sd.path, TRUE) THEN Fail(Note(st, outpath, sd.path), "OSError")
        ELSE
        LET st1 == [Note(st, outpath, sd.path) EXCEPT
                       !.dirs = @ \cup SelfAndParents(sd.path),
                       !.touched = @ \cup {[slug |-> slug, op |-> "mkdir", path |-> sd.path,
                                             name |-> <<>>, src |-> NoSource, over |-> FALSE]}]
            src == joinpath(links, worktree, file.path)
            dest == joinpath(links, sd.path, Sanitize(Lower(file.name)))
            destdir == [dest.path EXCEPT !.parts = Front(@)]
        IN  IF ~src.ok THEN Fail(st1, "ValueError: joinpath")
            ELSE IF ~dest.ok THEN Fail(st1, "ValueError: joinpath")
            ELSE IF ~CanMkdir(st1, destdir, TRUE)
                 THEN Fail(Note(st1, sd.path, dest.path), "OSError")
            ELSE
            LET st2 == [Note(st1, sd.path, dest.path) EXCEPT
                           !.dirs = @ \cup SelfAndParents(destdir),
                           !.touched = @ \cup {[slug |-> slug, op |-> "mkdir", path |-> destdir,
                                                 name |-> <<>>, src |-> NoSource, over |-> FALSE]}]
            IN  IF DestExists(st2, dest.path)
                THEN Fail(st2, "ValueError: already exists")
                ELSE IF src.path \notin wfiles THEN Fail(st2, "OSError")
                ELSE [st2 EXCEPT
                         !.files = @ \cup {dest.path},
                         !.touched = @ \cup {[slug |-> slug, op |-> "copy", path |-> dest.path,
                                               name |-> file.name, src |-> src.path,
                                               over |-> FALSE]}]

RECURSIVE SaveStatics(_, _, _, _, _, _, _, _)
\* for name, info in lesson['static_files'].items()
SaveStatics(st, links, slug, outpath, worktree, wfiles, statics, i) ==
    IF st.err # "" \/ i > Len(statics) THEN st
    ELSE SaveStatics(SaveStatic(st, links, slug, outpath, worktree, wfiles, statics[i]),
                     links, slug, outpath, worktree, wfiles, statics, i + 1)

\* a mutation: the test looks for the path separator
SlugRejected_slash(slug) == \E i \in 1..Len(slug) : slug[i] = "/"

\* if '.' in slug: raise ValueError(slug)
SlugRejected(slug) == \E i \in 1..Len(slug) : slug[i] = "."

\* the body of: for slug, lesson in data.items(), after _done_slugs.add(slug)
SaveLesson(st, links, root, worktree, wfiles, slug, lesson) ==
    IF SlugRejected(slug) THEN Fail(st, "ValueError: slug")
    ELSE
    LET base == PathJoin(root, LessonsName)
        out == joinpath(links, base, Lower(slug))
    IN  IF ~out.ok THEN Fail(st, "ValueError: joinpath")
        ELSE IF ~CanMkdir(st, out.path, FALSE) THEN Fail(Note(st, base, out.path), "OSError")
        ELSE SaveStatics(
                 SavePages(
                     [Note(st, base, out.path) EXCEPT
                         !.dirs = @ \cup SelfAndParents(out.path),
                         !.touched = @ \cup {[slug |-> slug, op |-> "mkdir", path |-> out.path,
                                               name |-> <<>>, src |-> NoSource, over |-> FALSE]}],
                     links, slug, out.path, lesson.pages, 1),
                 links, slug, out.path, worktree, wfiles, lesson.static_files, 1)

(***************************************************************************)
(* SpecPath: joinpath on every base and every fragment of the bound, and   *)
(* the write its caller does with the path it returns                      *)
(* (content_path = joinpath(...); content_path.write_text(content)).       *)
(***************************************************************************)
NoImageMaker == [name |-> "", tempdir |-> 0, containerfile |-> "none", noop |-> FALSE]

\* no ImageMaker and no get_data call is in use
RuntimeIdle ==
    /\ images = {}
    /\ tempdirs = {}
    /\ im = NoImageMaker
    /\ gd_tempdir = 0
    /\ rt_pc = "off"
    /\ ops = <<>>

\* main is not running
ArchiveIdle ==
    /\ output = <<>>
    /\ before = <<>>
    /\ ar_course = 0
    /\ ar_pc = "off"
    /\ ar_err = ""
    /\ staged = {}
    /\ ar_failed = {}
    /\ ar_result = {}
    /\ ar_attempted = {}

\* save_lessons is not running
LessonsIdle ==
    /\ world = [kind |-> "none"]
    /\ result_path = [root |-> "/", parts |-> <<>>]
    /\ lesson_slugs = {}
    /\ done_slugs = {}
    /\ result = {}
    /\ tries = 0
    /\ data = {}
    /\ ls_pc = "idle"
    /\ ls_err = ""
    /\ dirs = {}
    /\ files = {}
    /\ fetches = <<>>
    /\ checked = {}
    /\ touched = {}

NoError == [type |-> "", arg |-> <<>>]

\* save_course is not running
CourseIdle ==
    /\ api_version = <<>>
    /\ sc_pc = "off"
    /\ sc_err = NoError
    /\ info_version = <<>>

\* fix_old_requirements_txt is not being called on its own
FixIdle ==
    /\ reqs_in = <<>>
    /\ reqs_out = <<>>
    /\ fx_pc = "off"

NoRun == [run |-> 0, route |-> "", data_path |-> "", version |-> <<>>, reqs |-> <<>>,
          result |-> <<>>, pc |-> "off"]

\* no image is being made
ImageIdle ==
    /\ cache = {}
    /\ gi = NoRun
    /\ gi_log = <<>>
    /\ helper_log = <<>>
    /\ gi_names = {}
    /\ gi_failed = {}

\* none of the later specifications is running
\* no runs share a cache
CacheIdle == pr = <<>>

RestIdle == CourseIdle /\ FixIdle /\ ImageIdle /\ CacheIdle

NoPath == [ok |-> FALSE, path |-> [root |-> "", parts |-> <<>>]]

\* joinpath is not being called on its own
PathIdle ==
    /\ jp_base = [root |-> "/", parts |-> <<>>]
    /\ jp_end = <<>>
    /\ jp_out = NoPath
    /\ jp_pc = "idle"
    /\ jp_written = {}


AbsPath(parts) == [root |-> "/", parts |-> parts]

\* the directory of temporary files reached through a link, as on systems
\* whose temporary directory lies behind one
TmpLink == [from |-> AbsPath(<< <<"l">> >>), to |-> AbsPath(<< <<"a">> >>)]

LinkSets == {{}, {TmpLink}}

\* the bases of the model: a resolved directory, a directory below it and a
\* directory named through the link
Bases == {AbsPath(<< <<"a">> >>), AbsPath(<< <<"a">>, <<"a">> >>), AbsPath(<< <<"l">> >>)}

PathInit ==
    /\ symlinks \in LinkSets
    /\ jp_base \in Bases
    /\ jp_end \in Texts(FragChars, MaxFragLen)
    /\ jp_out = NoPath
    /\ jp_pc = "call"
    /\ jp_written = {}
    /\ LessonsIdle
    /\ RuntimeIdle
    /\ ArchiveIdle
    /\ RestIdle

\* result = joinpath(base, end)
JoinpathCall ==
    /\ jp_pc = "call"
    /\ jp_out' = joinpath(symlinks, jp_base, jp_end)
    /\ jp_pc' = IF jp_out'.ok THEN "checked" ELSE "raised"
    /\ UNCHANGED <<symlinks, jp_base, jp_end, jp_written>>
    /\ UNCHANGED <<lessonVars, rtVars, arVars, restVars>>

\* the statement after the call: the caller writes to the returned path
CallerWrite ==
    /\ jp_pc = "checked"
    /\ jp_written' = jp_written \cup {jp_out.path}
    /\ jp_pc' = "written"
    /\ UNCHANGED <<symlinks, jp_base, jp_end, jp_out>>
    /\ UNCHANGED <<lessonVars, rtVars, arVars, restVars>>

PathNext == JoinpathCall \/ CallerWrite

SpecPath == PathInit /\ [][PathNext]_vars

(***************************************************************************)
(* The courses of the model: what get_lessons answers for a slug.          *)
(***************************************************************************)
MaxTries == 50

MaxChain == 51

Nodes == {1, 2, 3}

\* the names the three lessons of a small course go by
Namings == << << <<"a">>, <<"b">>, <<"c">> >>,
              << <<"a">>, <<"a", "/", "b">>, <<"a", ".", "b">> >>,
              << <<"a">>, <<"A">>, <<"b">> >> >>

NoWorld == [kind |-> "none", len |-> 0, refs |-> [n \in Nodes |-> {}], init |-> {},
            names |-> 1, page |-> <<>>, static |-> <<>>, src |-> <<>>]

\* lesson i of len references lesson i + 1
ChainWorlds == {[NoWorld EXCEPT !.kind = "chain", !.len = n] : n \in 1..MaxChain}

\* every lesson references one more lesson
EndlessWorld == [NoWorld EXCEPT !.kind = "endless"]

\* the reference graphs over three lessons, cycles included: every graph
\* under the plain names, and under the other names the graphs in which a
\* lesson references at most one lesson
GraphWorlds ==
    {[NoWorld EXCEPT !.kind = "graph", !.refs = f, !.init = s] :
        f \in [Nodes -> SUBSET Nodes], s \in SUBSET Nodes}
    \cup
    {[NoWorld EXCEPT !.kind = "graph", !.refs = f, !.init = s, !.names = k] :
        f \in [Nodes -> {{}} \cup {{n} : n \in Nodes}], s \in SUBSET Nodes,
        k \in DOMAIN Namings}

PageNames == {<<"x">>, SolutionPrefix \o <<"0">>, <<".", ".">>, <<".", ".", "/", "x">>,
              <<"/", "x">>,
              <<"x", "/", ".", ".", "/", "y">>,
              <<".", ".", "/", ".", ".", "/", ".", ".", "/", "x">>}

\* the names of the second static file of a lesson; the first is named "f"
StaticNames == {<<"g">>, <<"F">>, <<"F", " ", " ", "f">>, <<"s", "u", "b", "/", "f">>,
                <<".", ".", "/", "f">>, <<"/", "f">>, <<"x", "/", ".", ".", "/", "f">>}

SourcePaths == {<<"s">>, <<"t">>, <<".", ".", "/", "s">>, <<"/", "e", "t", "c">>, <<"m">>}

\* one lesson whose page and static file have names chosen by the course
HostileWorlds ==
    {[NoWorld EXCEPT !.kind = "hostile", !.page = p, !.static = n, !.src = q] :
        p \in PageNames, n \in StaticNames, q \in SourcePaths}

\* the course of the scenario: the lesson intro links to the lesson setup,
\* which links to no lesson
ScenarioWorld == [NoWorld EXCEPT !.kind = "scenario"]

Intro == <<"i", "n", "t", "r", "o">>

Setup == <<"s", "e", "t", "u", "p">>

\* a course of one lesson that has two pages, each with a solution
TwoPagesWorld == [NoWorld EXCEPT !.kind = "pages"]

\* a course whose lesson a links to the lessons b and c, the renderer
\* leaving b out of every answer
OmitsWorld == [NoWorld EXCEPT !.kind = "omits"]

Worlds == ChainWorlds \cup {EndlessWorld} \cup GraphWorlds \cup HostileWorlds
          \cup {ScenarioWorld, TwoPagesWorld, OmitsWorld}

ChainSlug(i) == <<"n">> \o Decimal(i)

DigitValue(c) == CHOOSE d \in 0..9 : DigitChars[d + 1] = c

RECURSIVE Number(_, _)
\* int(s[1..k])
Number(s, k) == IF k = 0 THEN 0 ELSE 10 * Number(s, k - 1) + DigitValue(s[k])

\* the i with ChainSlug(i) = slug
ChainIndex(slug) == Number(Tail(slug), Len(slug) - 1)

NodeSlug(w, n) == Namings[w.names][n]

\* the slugs of the course's sessions (save_course collects them)
InitialSlugs(w) ==
    CASE w.kind \in {"chain", "endless"} -> {ChainSlug(1)}
      [] w.kind = "graph" -> {NodeSlug(w, n) : n \in w.init}
      [] w.kind = "scenario" -> {Intro}
      [] OTHER -> {<<"a">>}

\* the slugs the content of a lesson links to
Refs(w, slug) ==
    CASE w.kind = "chain" ->
            IF ChainIndex(slug) < w.len THEN {ChainSlug(ChainIndex(slug) + 1)} ELSE {}
      [] w.kind = "endless" -> {ChainSlug(ChainIndex(slug) + 1)}
      [] w.kind = "graph" ->
            UNION {{NodeSlug(w, m) : m \in w.refs[n]} : n \in {k \in Nodes : NodeSlug(w, k) = slug}}
      [] w.kind = "scenario" -> IF slug = Intro THEN {Setup} ELSE {}
      [] w.kind = "omits" -> IF slug = <<"a">> THEN {<<"b">>, <<"c">>} ELSE {}
      [] OTHER -> {}

\* the slugs the renderer leaves out of info['data'] when it is asked for them
Omitted(w) == IF w.kind = "omits" THEN {<<"b">>} ELSE {}

\* the keys of info['data'] when get_lessons is called with slugs
Answered(w, slugs) == Range(slugs) \ Omitted(w)

PageLink(slug) == [scheme |-> "naucse", path |-> "page", lesson |-> slug]

\* a link that is no reference to a lesson
OtherLink == [scheme |-> "https", path |-> "page", lesson |-> <<"z">>]

\* the links of a markup that refers to the lessons of S
Content(S) == [i \in 1..(Cardinality(S) + 1) |->
                  IF i = 1 THEN OtherLink ELSE PageLink(Sorted(S)[i - 1])]

IndexName == <<"i", "n", "d", "e", "x">>

\* the lesson get_lessons returns for slug: in a chain the lessons with an
\* even number link from a solution, the others from the page
Lesson(w, slug) ==
    CASE w.kind \in {"chain", "endless"} ->
            IF ChainIndex(slug) % 2 = 0
            THEN [pages |-> <<[name |-> IndexName, content |-> Content({}),
                               solutions |-> <<Content({}), Content(Refs(w, slug))>>]>>,
                  static_files |-> <<>>]
            ELSE [pages |-> <<[name |-> IndexName, content |-> Content(Refs(w, slug)),
                               solutions |-> <<>>]>>,
                  static_files |-> <<>>]
      [] w.kind \in {"graph", "scenario", "omits"} ->
            [pages |-> <<[name |-> IndexName, content |-> Content(Refs(w, slug)),
                          solutions |-> <<>>]>>,
             static_files |-> <<>>]
      [] w.kind = "pages" ->
            [pages |-> <<[name |-> IndexName, content |-> Content({}),
                          solutions |-> <<Content({})>>],
                         [name |-> <<"x">>, content |-> Content({}),
                          solutions |-> <<Content({})>>]>>,
             static_files |-> <<>>]
      [] OTHER ->
            [pages |-> <<[name |-> w.page, content |-> Content({}),
                          solutions |-> <<Content({})>>]>>,
             static_files |-> <<[name |-> <<"f">>, path |-> <<"s">>],
                                [name |-> w.static, path |-> w.src]>>]

(***************************************************************************)
(* SpecLessons: save_lessons on every course of the model.                 *)
(***************************************************************************)
ResultDir == AbsPath(<< <<"a">>, <<"r">> >>)
ResultDirByLink == AbsPath(<< <<"l">>, <<"r">> >>)
Worktree == AbsPath(<< <<"a">>, <<"w">> >>)
WorktreeFiles == {AbsPath(<< <<"a">>, <<"w">>, <<"s">> >>),
                  AbsPath(<< <<"a">>, <<"w">>, <<"t">> >>)}

InitialDirs == SelfAndParents(ResultDir) \cup SelfAndParents(Worktree)

TooDeep == "ValueError: Lessons are linked too deeply"

LessonsInit ==
    /\ \/ symlinks = {} /\ result_path = ResultDir /\ world \in Worlds
       \/ symlinks = {TmpLink} /\ result_path = ResultDirByLink /\ world \in HostileWorlds
    /\ lesson_slugs = InitialSlugs(world)
    /\ done_slugs = {}
    /\ result = {}
    /\ tries = 0
    /\ data = {}
    /\ ls_pc = "for"
    /\ ls_err = ""
    /\ dirs = InitialDirs
    /\ files = {}
    /\ fetches = <<>>
    /\ checked = {}
    /\ touched = {}
    /\ PathIdle
    /\ RuntimeIdle
    /\ ArchiveIdle
    /\ RestIdle

\* a mutation: the loop gives one value less
LoopExhausted_early(n) == n >= MaxTries - 1

\* a mutation: the loop gives one value more
LoopExhausted_late(n) == n >= MaxTries + 1

\* range(50) has no further value
LoopExhausted(n) == n >= MaxTries

\* a mutation: nothing is removed
Remaining_all(slugs, done) == slugs

\* a mutation: the slugs that were asked for are removed as well
Remaining_asked(slugs, done) ==
    slugs \ (done \cup UNION {Range(fetches[i].slugs) : i \in DOMAIN fetches})

\* lesson_slugs -= _done_slugs
Remaining(slugs, done) == slugs \ done

\* info = get_lessons(..., sorted(lesson_slugs), ...): the call is made
Fetch ==
    /\ ls_pc = "for"
    /\ ~LoopExhausted(tries)
    /\ tries' = tries + 1
    /\ fetches' = Append(fetches, [slugs |-> Sorted(lesson_slugs), resolved |-> result,
                                   pending |-> lesson_slugs])

\* the container run succeeds: data holds the lessons the renderer answers
GetLessons ==
    /\ Fetch
    /\ data' = Answered(world, Sorted(lesson_slugs))
    /\ ls_pc' = "items"
    /\ UNCHANGED <<world, result_path, lesson_slugs, done_slugs, result, ls_err,
                   dirs, files, checked, touched>>
    /\ UNCHANGED <<jp_base, jp_end, jp_out, jp_pc, jp_written, symlinks>>
    /\ UNCHANGED <<rtVars, arVars, restVars>>

\* the container run exits non-zero: run() raises
GetLessonsFails ==
    /\ Fetch
    /\ ls_pc' = "raised"
    /\ ls_err' = "CalledProcessError"
    /\ UNCHANGED <<world, result_path, lesson_slugs, done_slugs, result, data,
                   dirs, files, checked, touched>>
    /\ UNCHANGED <<jp_base, jp_end, jp_out, jp_pc, jp_written, symlinks>>
    /\ UNCHANGED <<rtVars, arVars, restVars>>

\* one turn of: for slug, lesson in data.items()
SaveItem ==
    /\ ls_pc = "items"
    /\ \E slug \in data :
        \E st \in {SaveLesson([dirs |-> dirs, files |-> files, checked |-> checked,
                              touched |-> touched, slugs |-> lesson_slugs, err |-> ""],
                             symlinks, result_path, Worktree, WorktreeFiles,
                             slug, Lesson(world, slug))} :
            /\ done_slugs' = done_slugs \cup {slug}
            /\ dirs' = st.dirs
            /\ files' = st.files
            /\ checked' = st.checked
            /\ touched' = st.touched
            /\ lesson_slugs' = st.slugs
            /\ ls_err' = st.err
            /\ IF st.err = ""
               THEN /\ result' = result \cup {slug}
                    /\ data' = data \ {slug}
                    /\ ls_pc' = "items"
               ELSE /\ ls_pc' = "raised"
                    /\ UNCHANGED <<result, data>>
    /\ UNCHANGED <<world, result_path, tries, fetches>>
    /\ UNCHANGED <<jp_base, jp_end, jp_out, jp_pc, jp_written, symlinks>>
    /\ UNCHANGED <<rtVars, arVars, restVars>>

\* the end of the loop body: lesson_slugs -= _done_slugs, and the break
EndRound ==
    /\ ls_pc = "items"
    /\ data = {}
    /\ lesson_slugs' = Remaining(lesson_slugs, done_slugs)
    /\ ls_pc' = IF lesson_slugs' = {} THEN "returned" ELSE "for"
    /\ UNCHANGED <<world, result_path, done_slugs, result, tries, data, ls_err,
                   dirs, files, fetches, checked, touched>>
    /\ UNCHANGED <<jp_base, jp_end, jp_out, jp_pc, jp_written, symlinks>>
    /\ UNCHANGED <<rtVars, arVars, restVars>>

\* the else of the for: raise ValueError('Lessons are linked too deeply')
LinkedTooDeeply ==
    /\ ls_pc = "for"
    /\ LoopExhausted(tries)
    /\ ls_pc' = "raised"
    /\ ls_err' = TooDeep
    /\ UNCHANGED <<world, result_path, lesson_slugs, done_slugs, result, tries, data,
                   dirs, files, fetches, checked, touched>>
    /\ UNCHANGED <<jp_base, jp_end, jp_out, jp_pc, jp_written, symlinks>>
    /\ UNCHANGED <<rtVars, arVars, restVars>>

LessonsNext == GetLessons \/ GetLessonsFails \/ SaveItem \/ EndRound \/ LinkedTooDeeply

SpecLessons == LessonsInit /\ [][LessonsNext]_vars

(***************************************************************************)
(* SpecCourse: save_course on every answer of get_course the bounds allow; *)
(* the lessons are saved by the steps of save_lessons above.               *)
(***************************************************************************)
MaxVersionPart == 5

MaxVersionLen == 3

\* the values of info['api_version']: lists of integers
Versions == UNION {[1..n -> 0..MaxVersionPart] : n \in 0..MaxVersionLen}

RECURSIVE TupleLess(_, _)
\* a < b as Python compares tuples of integers
TupleLess(a, b) ==
    IF b = <<>> THEN FALSE
    ELSE IF a = <<>> THEN TRUE
    ELSE IF a[1] # b[1] THEN a[1] < b[1]
    ELSE TupleLess(Tail(a), Tail(b))

\* if version >= (0, 4)
TooNew(version) == ~TupleLess(version, <<0, 4>>)

\* if version < (0, 1)
NeedsSerials(version) == TupleLess(version, <<0, 1>>)

\* the names fixes.py defines
FixesNames == {"find_lesson_slugs", "_find_lesson_slugs", "fix_old_requirements_txt",
               "find_prerequisites"}

CourseJson == <<"c", "o", "u", "r", "s", "e", ".", "j", "s", "o", "n">>

\* the courses save_course is run on
CourseWorlds ==
    {EndlessWorld}
    \cup {[NoWorld EXCEPT !.kind = "graph", !.refs = f, !.init = s] :
             f \in [Nodes -> {{}, {2}}], s \in {{}, {1}}}

CourseInit ==
    /\ api_version \in Versions
    /\ sc_pc = "get_course"
    /\ sc_err = NoError
    /\ info_version = <<>>
    /\ world \in CourseWorlds
    /\ symlinks = {}
    /\ result_path = ResultDir
    /\ lesson_slugs = {}
    /\ done_slugs = {}
    /\ result = {}
    /\ tries = 0
    /\ data = {}
    /\ ls_pc = "idle"
    /\ ls_err = ""
    /\ dirs = InitialDirs
    /\ files = {}
    /\ fetches = <<>>
    /\ checked = {}
    /\ touched = {}
    /\ PathIdle
    /\ RuntimeIdle
    /\ ArchiveIdle
    /\ FixIdle
    /\ ImageIdle
    /\ CacheIdle

\* info = get_course(...) returns
GetCourse ==
    /\ sc_pc = "get_course"
    /\ sc_pc' = "version"
    /\ info_version' = api_version
    /\ UNCHANGED <<api_version, sc_err>>
    /\ UNCHANGED <<pathVars, lessonVars, rtVars, arVars>>
    /\ UNCHANGED otherThanCourse

\* info = get_course(...): the container run fails or gives no output
GetCourseFails ==
    /\ sc_pc = "get_course"
    /\ sc_pc' = "raised"
    /\ sc_err' = [type |-> "get_course", arg |-> <<>>]
    /\ UNCHANGED <<api_version, info_version>>
    /\ UNCHANGED <<pathVars, lessonVars, rtVars, arVars>>
    /\ UNCHANGED otherThanCourse

\* raise ValueError(f'API version {version} is too new. ...')
VersionTooNew ==
    /\ sc_pc = "version"
    /\ TooNew(info_version)
    /\ sc_pc' = "raised"
    /\ sc_err' = [type |-> "ValueError: too new", arg |-> info_version]
    /\ UNCHANGED <<api_version, info_version>>
    /\ UNCHANGED <<pathVars, lessonVars, rtVars, arVars>>
    /\ UNCHANGED otherThanCourse

\* fixes.add_serials(course): fixes has no attribute of the name
AddSerials ==
    /\ sc_pc = "version"
    /\ ~TooNew(info_version)
    /\ NeedsSerials(info_version)
    /\ "add_serials" \notin FixesNames
    /\ sc_pc' = "raised"
    /\ sc_err' = [type |-> "AttributeError", arg |-> <<>>]
    /\ UNCHANGED <<api_version, info_version>>
    /\ UNCHANGED <<pathVars, lessonVars, rtVars, arVars>>
    /\ UNCHANGED otherThanCourse

\* the version is accepted: info['api_version'] = (0, 4), the slugs of the
\* sessions are collected and save_lessons is called
SaveLessonsCalled ==
    /\ sc_pc = "version"
    /\ ~TooNew(info_version)
    /\ ~NeedsSerials(info_version)
    /\ info_version' = <<0, 4>>
    /\ sc_pc' = "save_lessons"
    /\ lesson_slugs' = InitialSlugs(world)
    /\ ls_pc' = "for"
    /\ UNCHANGED <<api_version, sc_err>>
    /\ UNCHANGED <<world, result_path, done_slugs, result, tries, data, ls_err,
                   dirs, files, fetches, checked, touched>>
    /\ UNCHANGED <<pathVars, rtVars, arVars>>
    /\ UNCHANGED otherThanCourse

\* save_lessons returns: course.json is written and save_course returns
CourseJsonWritten ==
    /\ sc_pc = "save_lessons"
    /\ ls_pc = "returned"
    /\ files' = files \cup {PathJoin(result_path, CourseJson)}
    /\ sc_pc' = "returned"
    /\ UNCHANGED <<api_version, sc_err, info_version>>
    /\ UNCHANGED <<world, result_path, lesson_slugs, done_slugs, result, tries, data,
                   ls_pc, ls_err, dirs, fetches, checked, touched>>
    /\ UNCHANGED <<pathVars, rtVars, arVars>>
    /\ UNCHANGED otherThanCourse

\* save_lessons raises and save_course lets the exception pass
SaveLessonsRaised ==
    /\ sc_pc = "save_lessons"
    /\ ls_pc = "raised"
    /\ sc_pc' = "raised"
    /\ sc_err' = [type |-> ls_err, arg |-> <<>>]
    /\ UNCHANGED <<api_version, info_version>>
    /\ UNCHANGED <<pathVars, lessonVars, rtVars, arVars>>
    /\ UNCHANGED otherThanCourse

CourseNext ==
    \/ GetCourse \/ GetCourseFails \/ VersionTooNew \/ AddSerials \/ SaveLessonsCalled
    \/ GetLessons \/ GetLessonsFails \/ SaveItem \/ EndRound \/ LinkedTooDeeply
    \/ CourseJsonWritten \/ SaveLessonsRaised

SpecCourse == CourseInit /\ [][CourseNext]_vars

\* the describe call has returned and the version check is done
VersionChecked ==
    /\ sc_pc \notin {"get_course", "version"}
    /\ sc_err.type # "get_course"

\* api_version is a pair at or above the ceiling (0, 4)
AtOrAboveCeiling(v) == Len(v) = 2 /\ (v[1] > 0 \/ (v[1] = 0 /\ v[2] >= 4))

\* api_version is a pair below the ceiling (0, 4)
BelowCeiling(v) == Len(v) = 2 /\ v[1] = 0 /\ v[2] < 4

\* C12: an api_version at or above (0, 4) is rejected with an error naming
\* the version, before any get_lessons call and before course.json is
\* written; every version below (0, 4) passes and save_lessons is begun.
C12_CeilingRejectsRestProceeds ==
    VersionChecked =>
        /\ AtOrAboveCeiling(api_version) =>
              /\ sc_pc = "raised"
              /\ sc_err = [type |-> "ValueError: too new", arg |-> api_version]
              /\ fetches = <<>>
              /\ PathJoin(result_path, CourseJson) \notin files
        /\ BelowCeiling(api_version) => ls_pc # "idle"

(***************************************************************************)
(* fixes.fix_old_requirements_txt, and SpecFixes: the function on every    *)
(* listing made of at most MaxPieces pieces.                               *)
(***************************************************************************)
MaxPieces == 2

OldRender ==
    <<"n", "a", "u", "c", "s", "e", "_", "r", "e", "n", "d", "e", "r", "<", "1", ".",
      "0">>

CompatComment ==
    <<"#", " ", "c", "o", "m", "p", "a", "t", "i", "b", "i", "l", "i", "t", "y", " ",
      "r", "e", "q", "u", "i", "r", "e", "m", "e", "n", "t", "s">>

RenderLimit ==
    <<"n", "a", "u", "c", "s", "e", "_", "r", "e", "n", "d", "e", "r", " ", "<", " ",
      "1", ".", "4">>

NbconvertLimit == <<"n", "b", "c", "o", "n", "v", "e", "r", "t", " ", "<", " ", "6">>

\* the characters str.splitlines() breaks a line at; "\r\n" is one break
LineBreaks == {"\n", "\r", "\f"}

\* the positions at which a line of s ends
LineEnds(s) ==
    {i \in 1..Len(s) :
        s[i] \in LineBreaks /\ ~(s[i] = "\r" /\ i < Len(s) /\ s[i + 1] = "\n")}

\* where the line that ends at e begins
LineStart(s, e) ==
    LET earlier == {j \in LineEnds(s) : j < e}
    IN  IF earlier = {} THEN 1 ELSE 1 + CHOOSE j \in earlier : \A k \in earlier : k <= j

\* the line that ends at e, without its break; Len(s) + 1 ends the last line
LineAt(s, e) ==
    SubSeq(s, LineStart(s, e),
           IF e <= Len(s) /\ s[e] = "\n" /\ e > 1 /\ s[e - 1] = "\r" THEN e - 2 ELSE e - 1)

\* str.splitlines(): no line is given for what follows the last break when
\* that is empty
splitlines(s) ==
    LET ends == LineEnds(s) \cup (IF LineStart(s, Len(s) + 1) <= Len(s)
                                  THEN {Len(s) + 1} ELSE {})
    IN  [k \in 1..Cardinality(ends) |->
            LineAt(s, CHOOSE e \in ends : Cardinality({j \in ends : j < e}) = k - 1)]

RECURSIVE JoinLines(_, _)
\* '\n'.join(lines[i..])
JoinLines(lines, i) ==
    IF i > Len(lines) THEN <<>>
    ELSE IF i = Len(lines) THEN lines[i]
    ELSE lines[i] \o <<"\n">> \o JoinLines(lines, i + 1)

\* s occurs in t
Contains(t, s) ==
    \E k \in 0..(Len(t) - Len(s)) : \A j \in 1..Len(s) : t[k + j] = s[j]

\* a mutation: the listing is searched, not its lines
fix_old_requirements_txt_substring(text) ==
    IF Contains(text, OldRender)
    THEN JoinLines(<<text, <<>>, CompatComment, RenderLimit, NbconvertLimit>>, 1)
    ELSE JoinLines(<<text>>, 1)

\* fixes.fix_old_requirements_txt
fix_old_requirements_txt(text) ==
    IF OldRender \in Range(splitlines(text))
    THEN JoinLines(<<text, <<>>, CompatComment, RenderLimit, NbconvertLimit>>, 1)
    ELSE JoinLines(<<text>>, 1)

\* the pieces listings are made of: a text and what ends it
PieceTexts == {OldRender, RenderLimit, NbconvertLimit, <<"x">>, <<" ">>, <<>>}

PieceEnds == {<<>>, <<"\n">>, <<"\r">>}

Pieces == {t \o e : t \in PieceTexts, e \in PieceEnds}

RECURSIVE Concat(_, _)
Concat(ps, i) == IF i > Len(ps) THEN <<>> ELSE ps[i] \o Concat(ps, i + 1)

Listings == {Concat(ps, 1) : ps \in UNION {[1..n -> Pieces] : n \in 0..MaxPieces}}

FixesInit ==
    /\ reqs_in \in Listings
    /\ reqs_out = <<>>
    /\ fx_pc = "call"
    /\ symlinks = {}
    /\ PathIdle
    /\ LessonsIdle
    /\ RuntimeIdle
    /\ ArchiveIdle
    /\ CourseIdle
    /\ ImageIdle
    /\ CacheIdle

\* reqs = fixes.fix_old_requirements_txt(reqs)
FixOldRequirements ==
    /\ fx_pc = "call"
    /\ reqs_out' = fix_old_requirements_txt(reqs_in)
    /\ fx_pc' = "returned"
    /\ UNCHANGED reqs_in
    /\ UNCHANGED <<pathVars, lessonVars, rtVars, arVars>>
    /\ UNCHANGED otherThanFixes

FixesNext == FixOldRequirements

SpecFixes == FixesInit /\ [][FixesNext]_vars

\* what the output has after the input
Added == SubSeq(reqs_out, Len(reqs_in) + 1, Len(reqs_out))

\* C16: the output begins with the input; when a line of the input is
\* exactly naucse_render<1.0 the part added has the lines naucse_render < 1.4
\* and nbconvert < 6, and they are lines of the output; otherwise nothing is
\* added.
C16_LegacyFix ==
    fx_pc = "returned" =>
        /\ IsPrefix(reqs_in, reqs_out)
        /\ IF \E i \in DOMAIN splitlines(reqs_in) : splitlines(reqs_in)[i] = OldRender
           THEN /\ {RenderLimit, NbconvertLimit} \subseteq Range(splitlines(Added))
                /\ {RenderLimit, NbconvertLimit} \subseteq Range(splitlines(reqs_out))
           ELSE Added = <<>>

\* C16's case: the listing of the scenario, "naucse_render<1.0\n", has been
\* rewritten
C16_Witness ==
    /\ fx_pc = "returned"
    /\ reqs_in = OldRender \o <<"\n">>
    /\ reqs_out # reqs_in

(***************************************************************************)
(* SpecRuntime: a caller that uses ImageMaker and get_data one after the   *)
(* other, at most MaxOps times.                                            *)
(***************************************************************************)
MaxOps == 3

\* the image names of the model; "" is the ImageMaker without a name
ImageNames == {"", "py", "reqs"}

NoOp == [kind |-> "", name |-> "", existed |-> FALSE, tmp |-> 0, written |-> {},
         built |-> "no", runs |-> 0, exits |-> <<>>, read |-> FALSE,
         outcome |-> "running"]

\* the return codes of a container run
ExitCodes == {0, 1}

\* a mutation: check is not passed on, as with check=False
run_unchecked(returncode, check) == [raised |-> FALSE, returncode |-> returncode]

\* run(*cmd, check=True): subprocess.run raises CalledProcessError when check
\* is set and the command exits non-zero, and run raises it again
run(returncode, check) == [raised |-> check /\ returncode # 0, returncode |-> returncode]

\* a mutation: the runtime is not asked
ImageExists_never(imgs, name) == FALSE

\* run(container_command, 'image', 'exists', name, check=False).returncode == 0
ImageExists(imgs, name) == name \in imgs

\* a mutation: the directory is removed only when nothing is being raised
TempdirExit_unless_raising(tmps, d, raising) == IF raising THEN tmps ELSE tmps \ {d}

\* leaving `with tempfile.TemporaryDirectory(...)`, d = 0 standing for no
\* directory: the directory is removed whether or not an exception passes
TempdirExit(tmps, d, raising) == tmps \ {d}

\* the last operation begun
ThisOp == ops[Len(ops)]

Update(f) == [ops EXCEPT ![Len(ops)] = f]

\* ImageMaker(container_command, name).__enter__()
Enter ==
    /\ rt_pc = "idle"
    /\ Len(ops) < MaxOps
    /\ \E name \in ImageNames :
        IF name # "" /\ ImageExists(images, name)
        THEN /\ im' = [name |-> name, tempdir |-> 0, containerfile |-> "none", noop |-> TRUE]
             /\ ops' = Append(ops, [NoOp EXCEPT !.kind = "ensure", !.name = name,
                                                !.existed = TRUE])
             /\ UNCHANGED tempdirs
        ELSE /\ im' = [name |-> name, tempdir |-> Len(ops) + 1, containerfile |-> "open",
                       noop |-> FALSE]
             /\ tempdirs' = tempdirs \cup {Len(ops) + 1}
             /\ ops' = Append(ops, [NoOp EXCEPT !.kind = "ensure", !.name = name,
                                                !.tmp = Len(ops) + 1,
                                                !.written = {"Containerfile"}])
    /\ rt_pc' = "with"
    /\ UNCHANGED <<images, gd_tempdir>>
    /\ UNCHANGED <<pathVars, lessonVars, arVars, restVars>>

\* the files the body of a with block writes: the auxiliary files of
\* get_image_from_requirements (if imgm.tempdir:) and the statements that
\* imgm.write prints, unless write was replaced by the function doing nothing
BodyWrites(m, aux) ==
    (IF aux /\ m.tempdir # 0 THEN {"requirements.txt", "requirements-pre.txt"} ELSE {})
    \cup (IF m.noop THEN {} ELSE {"statements"})

\* the body of the with block runs to its end
Body ==
    /\ rt_pc = "with"
    /\ \E aux \in BOOLEAN :
        ops' = Update([ThisOp EXCEPT !.written = @ \cup BodyWrites(im, aux)])
    /\ rt_pc' = "leave"
    /\ UNCHANGED <<images, tempdirs, im, gd_tempdir>>
    /\ UNCHANGED <<pathVars, lessonVars, arVars, restVars>>

\* the body of the with block raises
BodyRaises ==
    /\ rt_pc = "with"
    /\ rt_pc' = "unwind"
    /\ UNCHANGED <<images, tempdirs, im, gd_tempdir, ops>>
    /\ UNCHANGED <<pathVars, lessonVars, arVars, restVars>>

\* __exit__(None, None, None) with a Containerfile: the build succeeds; with
\* no name, proc.stdout is None (run captures nothing) and .strip() raises
ExitBuilds ==
    /\ rt_pc = "leave"
    /\ im.containerfile = "open"
    /\ images' = IF im.name # "" THEN images \cup {im.name} ELSE images
    /\ ops' = Update([ThisOp EXCEPT !.built = "ok",
                                    !.outcome = IF im.name # "" THEN "returned" ELSE "raised"])
    /\ tempdirs' = TempdirExit(tempdirs, im.tempdir, im.name = "")
    /\ im' = NoImageMaker
    /\ rt_pc' = "idle"
    /\ UNCHANGED gd_tempdir
    /\ UNCHANGED <<pathVars, lessonVars, arVars, restVars>>

\* __exit__(None, None, None) with a Containerfile: the build command fails
ExitBuildFails ==
    /\ rt_pc = "leave"
    /\ im.containerfile = "open"
    /\ ops' = Update([ThisOp EXCEPT !.built = "failed", !.outcome = "raised"])
    /\ tempdirs' = TempdirExit(tempdirs, im.tempdir, TRUE)
    /\ im' = NoImageMaker
    /\ rt_pc' = "idle"
    /\ UNCHANGED <<images, gd_tempdir>>
    /\ UNCHANGED <<pathVars, lessonVars, arVars, restVars>>

\* __exit__(None, None, None) without a Containerfile: nothing is built
ExitSkips ==
    /\ rt_pc = "leave"
    /\ im.containerfile = "none"
    /\ ops' = Update([ThisOp EXCEPT !.outcome = "returned"])
    /\ tempdirs' = TempdirExit(tempdirs, im.tempdir, FALSE)
    /\ im' = NoImageMaker
    /\ rt_pc' = "idle"
    /\ UNCHANGED <<images, gd_tempdir>>
    /\ UNCHANGED <<pathVars, lessonVars, arVars, restVars>>

\* __exit__(tp, val, tb) with an exception: nothing is built
ExitRaising ==
    /\ rt_pc = "unwind"
    /\ ops' = Update([ThisOp EXCEPT !.outcome = "raised"])
    /\ tempdirs' = TempdirExit(tempdirs, im.tempdir, TRUE)
    /\ im' = NoImageMaker
    /\ rt_pc' = "idle"
    /\ UNCHANGED <<images, gd_tempdir>>
    /\ UNCHANGED <<pathVars, lessonVars, arVars, restVars>>

\* get_data up to the container run: the exchange directory is made, runner.py
\* and input.json are written and the container is started
GetData ==
    /\ rt_pc = "idle"
    /\ Len(ops) < MaxOps
    /\ tempdirs' = tempdirs \cup {Len(ops) + 1}
    /\ gd_tempdir' = Len(ops) + 1
    /\ ops' = Append(ops, [NoOp EXCEPT !.kind = "get_data", !.tmp = Len(ops) + 1,
                                       !.written = {"runner.py", "input.json"},
                                       !.runs = 1])
    /\ rt_pc' = "run"
    /\ UNCHANGED <<images, im>>
    /\ UNCHANGED <<pathVars, lessonVars, arVars, restVars>>

\* the end of a get_data call whose container exited with returncode
GetDataEnds(returncode, read, outcome) ==
    /\ rt_pc = "run"
    /\ ops' = Update([ThisOp EXCEPT !.exits = Append(@, returncode), !.read = read,
                                    !.outcome = outcome])
    /\ tempdirs' = TempdirExit(tempdirs, gd_tempdir, outcome = "raised")
    /\ gd_tempdir' = 0
    /\ rt_pc' = "idle"
    /\ UNCHANGED <<images, im>>
    /\ UNCHANGED <<pathVars, lessonVars, arVars, restVars>>

\* the container exits 0 and output.json holds JSON: json.load(f) is returned
GetDataReturns ==
    \E returncode \in ExitCodes :
        /\ ~run(returncode, TRUE).raised
        /\ GetDataEnds(returncode, TRUE, "returned")

\* the container exits non-zero: run raises CalledProcessError
GetDataRunFails ==
    \E returncode \in ExitCodes :
        /\ run(returncode, TRUE).raised
        /\ GetDataEnds(returncode, FALSE, "raised")

\* the container exits 0, output.json is missing or is no JSON: open or
\* json.load raises
GetDataNoResponse ==
    \E returncode \in ExitCodes :
        /\ ~run(returncode, TRUE).raised
        /\ GetDataEnds(returncode, TRUE, "raised")

RuntimeInit ==
    /\ images \in SUBSET (ImageNames \ {""})
    /\ tempdirs = {}
    /\ im = NoImageMaker
    /\ gd_tempdir = 0
    /\ rt_pc = "idle"
    /\ ops = <<>>
    /\ symlinks = {}
    /\ PathIdle
    /\ LessonsIdle
    /\ ArchiveIdle
    /\ RestIdle

RuntimeNext ==
    \/ Enter \/ Body \/ BodyRaises
    \/ ExitBuilds \/ ExitBuildFails \/ ExitSkips \/ ExitRaising
    \/ GetData \/ GetDataReturns \/ GetDataRunFails \/ GetDataNoResponse

SpecRuntime == RuntimeInit /\ [][RuntimeNext]_vars

\* the operation ops[i] has returned or raised
Finished(i) == i < Len(ops) \/ rt_pc = "idle"

\* C1: when the runtime reports that the name exists, no build context is
\* made, no file is written and nothing is built; and of two uses of
\* ImageMaker in sequence with one name, the first building the image, the
\* second builds nothing, so the two build once.
C1_EnsureIdempotent ==
    /\ \A i \in DOMAIN ops :
          (ops[i].kind = "ensure" /\ ops[i].existed) =>
              ops[i].tmp = 0 /\ ops[i].written = {} /\ ops[i].built = "no"
    /\ \A i \in DOMAIN ops :
          (/\ i + 1 \in DOMAIN ops
           /\ ops[i].kind = "ensure" /\ ops[i + 1].kind = "ensure"
           /\ ops[i].name # "" /\ ops[i + 1].name = ops[i].name
           /\ ops[i].built = "ok") =>
              /\ ops[i + 1].built = "no"
              /\ ops[i + 1].existed
              /\ Cardinality({j \in {i, i + 1} : ops[j].built # "no"}) = 1

\* C1's case: the name was built by one ImageMaker and the next one, with
\* the same name, has been left
C1_Witness ==
    /\ rt_pc = "idle"
    /\ \E i \in DOMAIN ops :
        /\ i + 1 \in DOMAIN ops
        /\ ops[i].kind = "ensure" /\ ops[i + 1].kind = "ensure"
        /\ ops[i].name # "" /\ ops[i + 1].name = ops[i].name
        /\ ops[i].built = "ok" /\ ~ops[i].existed
        /\ ops[i + 1].outcome = "returned"

\* C9: the temporary directory of an operation that has returned or raised
\* does not exist.
C9_TempdirsRemoved ==
    \A i \in DOMAIN ops : (Finished(i) /\ ops[i].tmp # 0) => ops[i].tmp \notin tempdirs

\* C9's case: a build that failed, a with block that raised in a build
\* context, and a get_data call whose container exited non-zero are over
C9_Witness ==
    /\ rt_pc = "idle"
    /\ \E i \in DOMAIN ops : ops[i].kind = "ensure" /\ ops[i].built = "failed"
    /\ \E i \in DOMAIN ops : /\ ops[i].kind = "ensure" /\ ops[i].tmp # 0
                             /\ ops[i].built = "no" /\ ops[i].outcome = "raised"
    /\ \E i \in DOMAIN ops : /\ ops[i].kind = "get_data" /\ ~ops[i].read
                             /\ ops[i].outcome = "raised"

\* C11: a get_data call whose container run exited non-zero has raised
\* without reading output.json and without returning a value, and its
\* container was run once.
C11_NonZeroExitIsFatal ==
    \A i \in DOMAIN ops :
        (/\ ops[i].kind = "get_data"
         /\ \E k \in DOMAIN ops[i].exits : ops[i].exits[k] # 0) =>
            /\ ~ops[i].read
            /\ ops[i].outcome = "raised"
            /\ ops[i].runs = 1
            /\ Len(ops[i].exits) = 1

\* C11's case: a container run exited non-zero and the call is over, and
\* another call has been made after it
C11_Witness ==
    \E i \in DOMAIN ops :
        /\ ops[i].kind = "get_data"
        /\ ops[i].exits = <<1>>
        /\ Finished(i)
        /\ i < Len(ops)
        /\ ops[i + 1].kind = "get_data"

(***************************************************************************)
(* SpecImage: archive runs one after the other, each making the images of  *)
(* its course (get_image_piptools or get_image_micropipenv, then           *)
(* get_image_from_requirements) and then running its calls in the image.   *)
(* One action is one use of ImageMaker or one container run.               *)
(***************************************************************************)
MaxRuns == 2

Alphabet ==
    <<"\n", "\f", "\r", " ", "#", ".", "0", "1", "2", "4", "6", "<", "=", "_", "a",
      "b", "c", "d", "e", "i", "l", "m", "n", "o", "p", "q", "r", "s", "t", "u", "v",
      "x", "y">>

Code(c) == CHOOSE i \in 1..Len(Alphabet) : Alphabet[i] = c

HexDigits == <<"0", "1", "2", "3", "4", "5", "6", "7", "8", "9", "a", "b", "c", "d", "e", "f">>

RECURSIVE WeightedSum(_, _, _)
\* the sum over s[lo..hi] of the code of a character times its position
WeightedSum(s, lo, hi) ==
    IF lo > hi THEN 0
    ELSE IF lo = hi THEN Code(s[lo]) * lo
    ELSE WeightedSum(s, lo, (lo + hi) \div 2) + WeightedSum(s, (lo + hi) \div 2 + 1, hi)

\* hashlib.sha256(text.encode()).hexdigest(): a digest of fixed length in
\* hexadecimal digits, two of them in the model
sha256(text) ==
    LET n == WeightedSum(text, 1, Len(text)) % (16 * 16)
    IN  <<HexDigits[(n \div 16) + 1], HexDigits[(n % 16) + 1]>>

Localhost ==
    <<"l", "o", "c", "a", "l", "h", "o", "s", "t", "/", "n", "a", "u", "c", "s", "e",
      "-", "p", "y">>

Py36 == <<"3", ".", "6">>

Py37 == <<"3", ".", "7">>

PythonVersions == {Py36, Py37}

Piptools == <<"p", "i", "p", "t", "o", "o", "l", "s">>

Micropipenv == <<"m", "i", "c", "r", "o", "p", "i", "p", "e", "n", "v">>

\* get_python_image: name = f'localhost/naucse-py{python_version}'
python_image(python_version) == Localhost \o python_version

\* name = f'localhost/naucse-py{python_version}-piptools' (or -micropipenv)
tool_image(python_version, tool) == Localhost \o python_version \o <<"-">> \o tool

\* a mutation: the version is left out of the name
requirements_image_unversioned(python_version, reqs) == Localhost \o <<"-">> \o sha256(reqs)

\* get_image_from_requirements:
\* name = f'localhost/naucse-py{python_version}-{reqs_hash}'
requirements_image(python_version, reqs) ==
    Localhost \o python_version \o <<"-">> \o sha256(reqs)

\* cache_dir = cache_path / f'piptools-{python_version}-{reqs_hash}'
cache_dir(python_version, reqs) == Piptools \o <<"-">> \o python_version \o <<"-">> \o sha256(reqs)

\* a mutation: the cache is not looked at
CacheHit_never(files_, dir) == FALSE

\* output_path.exists()
CacheHit(files_, dir) == \E f \in files_ : f.dir = dir /\ f.file = "output.txt"

\* output_path.read_text()
CacheRead(files_, dir) == (CHOOSE f \in files_ : f.dir = dir /\ f.file = "output.txt").text

\* path.write_text(text): the file holds text afterwards
WriteText(files_, dir, file, text) ==
    {f \in files_ : ~(f.dir = dir /\ f.file = file)}
    \cup {[dir |-> dir, file |-> file, text |-> text]}

\* the requirements.txt files of the courses
RawListings == {<<"x", "\n">>, OldRender \o <<"\n">>, OldRender}

\* what the resolution helpers print: pinned listings
PinnedA == <<"a", "=", "=", "1", "\n">>

PinnedB == <<"b", "=", "=", "2", "\n">>

PinnedListings == {PinnedA, PinnedB}

DataPaths == {"d1", "d2"}

\* the steps of a run after its worktree is made, in order
Steps == <<"base", "tool", "resolve", "base2", "deps", "calls", "returned">>

NextStep(step) == Steps[(CHOOSE i \in DOMAIN Steps : Steps[i] = step) + 1]

\* the name the ImageMaker of the step is made with
NameAt(g) ==
    CASE g.pc \in {"base", "base2"} -> python_image(g.version)
      [] g.pc = "tool" -> tool_image(g.version, IF g.route = "piptools" THEN Piptools
                                                ELSE Micropipenv)
      [] OTHER -> requirements_image(g.version, g.result)

\* an entry of the log of the run: held tells whether the runtime held the
\* name when the step began, failed_before whether a build of it had failed
Event(kind, name, existed, built) ==
    [kind |-> kind, name |-> name, existed |-> existed, built |-> built,
     held |-> name \in images, failed_before |-> name \in gi_failed]

ImageInit ==
    /\ images \in {{}, {python_image(Py36)}}
    /\ cache = {}
    /\ gi = [NoRun EXCEPT !.pc = "idle"]
    /\ gi_log = <<>>
    /\ helper_log = <<>>
    /\ gi_names = {}
    /\ gi_failed = {}
    /\ tempdirs = {}
    /\ im = NoImageMaker
    /\ gd_tempdir = 0
    /\ rt_pc = "off"
    /\ ops = <<>>
    /\ symlinks = {}
    /\ PathIdle
    /\ LessonsIdle
    /\ ArchiveIdle
    /\ CourseIdle
    /\ FixIdle
    /\ CacheIdle

ImageUnchanged ==
    /\ UNCHANGED <<tempdirs, im, gd_tempdir, rt_pc, ops>>
    /\ UNCHANGED <<pathVars, lessonVars, arVars>>
    /\ UNCHANGED otherThanImage

\* archive is called: the worktree is made and choose_get_image finds
\* Pipfile.lock (with its python_version) or requirements.txt in it
RunBegins ==
    /\ gi.pc \in {"idle", "returned", "raised"}
    /\ gi.run < MaxRuns
    /\ \E d \in DataPaths :
        \/ \E v \in PythonVersions :
              gi' = [NoRun EXCEPT !.run = gi.run + 1, !.route = "micropipenv",
                                  !.data_path = d, !.version = v, !.pc = "base"]
        \/ \E r \in RawListings :
              gi' = [NoRun EXCEPT !.run = gi.run + 1, !.route = "piptools",
                                  !.data_path = d, !.version = Py36, !.reqs = r,
                                  !.pc = "base"]
    /\ gi_log' = <<>>
    /\ UNCHANGED <<images, cache, helper_log, gi_names, gi_failed>>
    /\ ImageUnchanged

\* the call of get_image_from_requirements is noted when its ImageMaker is left
Named(g) ==
    IF g.pc = "deps"
    THEN gi_names \cup {[version |-> g.version, reqs |-> g.result, name |-> NameAt(g),
                         data_path |-> g.data_path, cached |-> cache # {}]}
    ELSE gi_names

\* with ImageMaker(container_command, name): `image exists` exits 0, nothing
\* is built
EnsureSkips ==
    /\ gi.pc \in {"base", "tool", "base2", "deps"}
    /\ ImageExists(images, NameAt(gi))
    /\ gi_log' = Append(gi_log, Event("ensure", NameAt(gi), TRUE, "no"))
    /\ gi_names' = Named(gi)
    /\ gi' = [gi EXCEPT !.pc = NextStep(gi.pc)]
    /\ UNCHANGED <<images, cache, helper_log, gi_failed>>
    /\ ImageUnchanged

\* with ImageMaker(container_command, name): the image is absent and
\* __exit__ runs the build; the runtime tags the image when the build succeeds
EnsureBuilds ==
    /\ gi.pc \in {"base", "tool", "base2", "deps"}
    /\ ~ImageExists(images, NameAt(gi))
    /\ \E returncode \in ExitCodes :
        /\ gi_log' = Append(gi_log, Event("ensure", NameAt(gi), FALSE,
                                          IF returncode = 0 THEN "ok" ELSE "failed"))
        /\ images' = IF returncode = 0 THEN images \cup {NameAt(gi)} ELSE images
        /\ gi_failed' = IF returncode = 0 THEN gi_failed ELSE gi_failed \cup {NameAt(gi)}
        /\ IF run(returncode, TRUE).raised
           THEN /\ gi' = [gi EXCEPT !.pc = "raised"]
                /\ UNCHANGED gi_names
           ELSE /\ gi' = [gi EXCEPT !.pc = NextStep(gi.pc)]
                /\ gi_names' = Named(gi)
    /\ UNCHANGED <<cache, helper_log>>
    /\ ImageUnchanged

\* get_image_piptools: output.txt exists for the fixed listing, it is read
ResolveCached ==
    /\ gi.pc = "resolve"
    /\ gi.route = "piptools"
    /\ \E fixed \in {fix_old_requirements_txt(gi.reqs)} :
        /\ CacheHit(cache, cache_dir(gi.version, fixed))
        /\ gi' = [gi EXCEPT !.result = CacheRead(cache, cache_dir(gi.version, fixed)),
                            !.pc = NextStep(gi.pc)]
        /\ gi_log' = Append(gi_log, Event("cached", cache_dir(gi.version, fixed), TRUE, "no"))
    /\ UNCHANGED <<images, cache, helper_log, gi_names, gi_failed>>
    /\ ImageUnchanged

\* get_image_piptools: output.txt is missing, piptools compile is run in the
\* container and what it printed is stored
ResolveRuns ==
    /\ gi.pc = "resolve"
    /\ gi.route = "piptools"
    /\ \E fixed \in {fix_old_requirements_txt(gi.reqs)}, returncode \in ExitCodes,
          printed \in PinnedListings, stored \in {"none", "input.txt", "both"} :
        /\ ~CacheHit(cache, cache_dir(gi.version, fixed))
        /\ (run(returncode, TRUE).raised => stored = "none")
        /\ gi_log' = Append(gi_log, Event("helper", cache_dir(gi.version, fixed), FALSE, "no"))
        /\ helper_log' = Append(helper_log, [input |-> fixed, returncode |-> returncode,
                                             stored |-> stored])
        /\ cache' = CASE stored = "none" -> cache
                      [] stored = "input.txt" ->
                            WriteText(cache, cache_dir(gi.version, fixed), "input.txt", fixed)
                      [] OTHER ->
                            WriteText(WriteText(cache, cache_dir(gi.version, fixed),
                                                "input.txt", fixed),
                                      cache_dir(gi.version, fixed), "output.txt", printed)
        /\ gi' = IF stored = "both"
                 THEN [gi EXCEPT !.result = printed, !.pc = NextStep(gi.pc)]
                 ELSE [gi EXCEPT !.pc = "raised"]
    /\ UNCHANGED <<images, gi_names, gi_failed>>
    /\ ImageUnchanged

\* get_image_micropipenv: micropipenv requirements is run in the container
MicropipenvRuns ==
    /\ gi.pc = "resolve"
    /\ gi.route = "micropipenv"
    /\ \E returncode \in ExitCodes, printed \in PinnedListings :
        /\ gi_log' = Append(gi_log, Event("run", NameAt([gi EXCEPT !.pc = "tool"]), FALSE, "no"))
        /\ gi' = IF run(returncode, TRUE).raised
                 THEN [gi EXCEPT !.pc = "raised"]
                 ELSE [gi EXCEPT !.result = printed, !.pc = NextStep(gi.pc)]
    /\ UNCHANGED <<images, cache, helper_log, gi_names, gi_failed>>
    /\ ImageUnchanged

\* save_env_info and save_course: the container runs in the image of the
\* course, the first that fails ending the run
CallsRun ==
    /\ gi.pc = "calls"
    /\ \E returncode \in ExitCodes :
        /\ gi_log' = Append(gi_log, Event("run", NameAt([gi EXCEPT !.pc = "deps"]), FALSE, "no"))
        /\ gi' = IF run(returncode, TRUE).raised
                 THEN [gi EXCEPT !.pc = "raised"]
                 ELSE [gi EXCEPT !.pc = NextStep(gi.pc)]
    /\ UNCHANGED <<images, cache, helper_log, gi_names, gi_failed>>
    /\ ImageUnchanged

ImageNext ==
    \/ RunBegins \/ EnsureSkips \/ EnsureBuilds
    \/ ResolveCached \/ ResolveRuns \/ MicropipenvRuns \/ CallsRun

SpecImage == ImageInit /\ [][ImageNext]_vars

\* C14: the name get_image_from_requirements gives depends on the version
\* and the listing alone: calls with the same version and the same listing
\* give the same name, whatever the data path, the cache and the calls
\* before; calls whose versions differ or whose listings have different
\* hashes give different names.
C14_NameIsFunctionOfVersionAndListing ==
    \A a, b \in gi_names :
        /\ (a.version = b.version /\ a.reqs = b.reqs) => a.name = b.name
        /\ (a.version # b.version \/ sha256(a.reqs) # sha256(b.reqs)) => a.name # b.name

\* C14's case: two runs gave the same version and listing under different
\* data paths, one with an empty cache and one with a filled one
C14_Witness ==
    \E a, b \in gi_names :
        /\ a.version = b.version /\ a.reqs = b.reqs
        /\ a.data_path # b.data_path
        /\ ~a.cached /\ b.cached
        /\ a.name = b.name

\* the runs of the helper on the given input listing
HelperRuns(input) == {i \in DOMAIN helper_log : helper_log[i].input = input}

\* what C15 says of one run: a hit reads the stored output and runs no
\* helper, a miss that goes on has run the helper and stored both files
CacheUsed ==
    /\ \A i \in DOMAIN gi_log :
          gi_log[i].kind = "cached" =>
              /\ \A j \in DOMAIN gi_log : gi_log[j].kind # "helper"
              /\ \E f \in cache : /\ f.dir = gi_log[i].name /\ f.file = "output.txt"
                                  /\ (gi.pc # "raised" => gi.result = f.text)
    /\ \A i \in DOMAIN gi_log :
          (gi_log[i].kind = "helper" /\ gi.pc # "raised") =>
              /\ Cardinality({j \in DOMAIN gi_log : gi_log[j].kind = "helper"}) = 1
              /\ \E f \in cache : /\ f.dir = gi_log[i].name /\ f.file = "input.txt"
                                  /\ f.text = fix_old_requirements_txt(gi.reqs)
              /\ \E f \in cache : /\ f.dir = gi_log[i].name /\ f.file = "output.txt"
                                  /\ f.text = gi.result

C20_FailedBuildIsFatalAndNotRemembered ==
    /\ \A i \in DOMAIN gi_log :
          (gi_log[i].kind = "ensure" /\ gi_log[i].built = "failed") =>
              /\ i = Len(gi_log)
              /\ gi.pc = "raised"
              /\ gi_log[i].name \notin images
    /\ \A i \in DOMAIN gi_log :
          (gi_log[i].kind = "ensure" /\ gi_log[i].failed_before /\ ~gi_log[i].held) =>
              /\ ~gi_log[i].existed
              /\ gi_log[i].built \in {"ok", "failed"}

\* C20's case: the build of a name failed in one run and a later run built
\* the same name and went on to its calls
C20_Witness ==
    /\ gi.run = 2
    /\ gi.pc = "returned"
    /\ \E i \in DOMAIN gi_log :
          /\ gi_log[i].kind = "ensure"
          /\ gi_log[i].failed_before
          /\ gi_log[i].built = "ok"

(***************************************************************************)
(* SpecCache: archive runs side by side, each at the cache of             *)
(* get_image_piptools (archival.py 229-253) with the listing of its        *)
(* course. Nothing in the code excludes one run from another, so a step of *)
(* the model is one system call of one run: exists, read, open, write.     *)
(***************************************************************************)
MaxWriters == 2

Writers == 1..MaxWriters

\* a byte of a hole in a file: what a write past the end of a file leaves
\* between the old end and the offset written at
ZeroByte == "\\0"

NoText == <<>>

FileText(files_, dir, file) ==
    IF \E f \in files_ : f.dir = dir /\ f.file = file
    THEN (CHOOSE f \in files_ : f.dir = dir /\ f.file = file).text
    ELSE NoText

\* f.write(chunk) on a file opened for writing whose position is offset:
\* the bytes land at the offset, whatever the file holds by then
WriteAt(files_, dir, file, offset, chunk) ==
    LET old == FileText(files_, dir, file)
        len == IF Len(old) > offset + Len(chunk) THEN Len(old) ELSE offset + Len(chunk)
    IN  WriteText(files_, dir, file,
                  [i \in 1..len |->
                      IF i > offset /\ i <= offset + Len(chunk) THEN chunk[i - offset]
                      ELSE IF i <= Len(old) THEN old[i]
                      ELSE ZeroByte])

\* reqs = fixes.fix_old_requirements_txt(reqs); cache_dir of the result
KeyOf(p) == cache_dir(Py36, fix_old_requirements_txt(pr[p].reqs))

CacheInit ==
    /\ pr \in [Writers -> {[reqs |-> r, pc |-> "exists", printed |-> NoText,
                            offset |-> 0, result |-> NoText, cached |-> FALSE,
                            wrote |-> FALSE] : r \in RawListings}]
    /\ cache = {}
    /\ gi = NoRun
    /\ gi_log = <<>>
    /\ helper_log = <<>>
    /\ gi_names = {}
    /\ gi_failed = {}
    /\ symlinks = {}
    /\ PathIdle
    /\ LessonsIdle
    /\ RuntimeIdle
    /\ ArchiveIdle
    /\ CourseIdle
    /\ FixIdle

CacheUnchanged ==
    /\ UNCHANGED <<gi, gi_log, helper_log, gi_names, gi_failed>>
    /\ UNCHANGED <<pathVars, lessonVars, rtVars, arVars, courseVars, fixVars>>

\* if output_path.exists():
OutputLooked(p) ==
    /\ pr[p].pc = "exists"
    /\ pr' = [pr EXCEPT ![p].pc = IF CacheHit(cache, KeyOf(p)) THEN "read" ELSE "helper",
                        ![p].cached = CacheHit(cache, KeyOf(p))]
    /\ UNCHANGED cache
    /\ CacheUnchanged

\* result = output_path.read_text(): what the file holds at that moment
OutputRead(p) ==
    /\ pr[p].pc = "read"
    /\ pr' = [pr EXCEPT ![p].result = CacheRead(cache, KeyOf(p)), ![p].pc = "returned"]
    /\ UNCHANGED cache
    /\ CacheUnchanged

\* proc = run(... 'piptools', 'compile' ...); result = proc.stdout
HelperEnds(p) ==
    /\ pr[p].pc = "helper"
    /\ \E returncode \in ExitCodes, printed \in PinnedListings :
        pr' = IF run(returncode, TRUE).raised
              THEN [pr EXCEPT ![p].pc = "raised"]
              ELSE [pr EXCEPT ![p].printed = printed, ![p].pc = "input"]
    /\ UNCHANGED cache
    /\ CacheUnchanged

\* cache_dir.mkdir(parents=True, exist_ok=True)
\* (cache_dir / 'input.txt').write_text(reqs)
InputWritten(p) ==
    /\ pr[p].pc = "input"
    /\ cache' = WriteText(cache, KeyOf(p), "input.txt", fix_old_requirements_txt(pr[p].reqs))
    /\ pr' = [pr EXCEPT ![p].pc = "open"]
    /\ CacheUnchanged

\* output_path.write_text(result), its open(mode='w'): the file is made, or
\* cut to nothing when it is there
OutputOpened(p) ==
    /\ pr[p].pc = "open"
    /\ cache' = WriteText(cache, KeyOf(p), "output.txt", NoText)
    /\ pr' = [pr EXCEPT ![p].pc = "write", ![p].offset = 0]
    /\ CacheUnchanged

\* output_path.write_text(result), a write of the file object: the text
\* reaches the file in one piece or in several
OutputWritten(p) ==
    /\ pr[p].pc = "write"
    /\ pr[p].offset < Len(pr[p].printed)
    /\ \E k \in 1..(Len(pr[p].printed) - pr[p].offset) :
        /\ cache' = WriteAt(cache, KeyOf(p), "output.txt", pr[p].offset,
                            SubSeq(pr[p].printed, pr[p].offset + 1, pr[p].offset + k))
        /\ pr' = [pr EXCEPT ![p].offset = pr[p].offset + k]
    /\ CacheUnchanged

\* output_path.write_text(result) returns; get_image_from_requirements is
\* called with result
OutputClosed(p) ==
    /\ pr[p].pc = "write"
    /\ pr[p].offset = Len(pr[p].printed)
    /\ pr' = [pr EXCEPT ![p].result = pr[p].printed, ![p].wrote = TRUE,
                        ![p].pc = "returned"]
    /\ UNCHANGED cache
    /\ CacheUnchanged

CacheNext ==
    \E p \in Writers :
        \/ OutputLooked(p) \/ OutputRead(p) \/ HelperEnds(p) \/ InputWritten(p)
        \/ OutputOpened(p) \/ OutputWritten(p) \/ OutputClosed(p)

SpecCache == CacheInit /\ [][CacheNext]_vars

\* the run found output.txt and read it
ReadFromCache(p) == pr[p].pc = "returned" /\ pr[p].cached

\* every run is over
AllOver == \A p \in Writers : pr[p].pc \in {"returned", "raised"}

\* the runs that stored a result under the key
WritersOf(key) == {p \in Writers : pr[p].wrote /\ KeyOf(p) = key}

\* C21: runs that fill the same cache key side by side need no mutual
\* exclusion: a run that finds output.txt reads a complete resolution
\* result, never an empty or a partial one, and when the runs are over
\* output.txt holds what one of its writers printed.
C21_NoPartialFileVisible ==
    /\ \A p \in Writers : ReadFromCache(p) => pr[p].result \in PinnedListings
    /\ AllOver =>
          \A p \in Writers :
              pr[p].wrote =>
                  FileText(cache, KeyOf(p), "output.txt")
                      \in {pr[q].printed : q \in WritersOf(KeyOf(p))}

(***************************************************************************)
(* SpecArchive: main archives the courses one after the other; archive     *)
(* goes through its stages, then promotes result_path to output_path/slug  *)
(* with shutil.rmtree and shutil.copytree, which work entry by entry.      *)
(***************************************************************************)
Courses == <<"c1", "c2">>

\* the stages of archive before the promotion, in order
Stages == <<"fetch", "get_commit_id", "make_worktree", "get_image", "tempdir_path",
            "save_env_info", "save_course">>

\* what a stage writes to result_path
StageOutput(stage) ==
    CASE stage = "save_env_info" -> {"env-info"}
      [] stage = "save_course" -> {"lessons", "course.json"}
      [] OTHER -> {}

ResultEntries == UNION {StageOutput(Stages[i]) : i \in DOMAIN Stages}

Absent == [exists |-> FALSE, entries |-> {}]

\* a complete archive of the given version
Archive(version) ==
    [exists |-> TRUE, entries |-> {[name |-> n, version |-> version] : n \in ResultEntries}]

StageIndex(stage) == CHOOSE i \in DOMAIN Stages : Stages[i] = stage

ThisCourse == Courses[ar_course]

ArchiveInit ==
    /\ output \in [Range(Courses) -> {Absent, Archive("old")}]
    /\ before = output
    /\ ar_course = 0
    /\ ar_pc = "main"
    /\ ar_err = ""
    /\ staged = {}
    /\ ar_failed = {}
    /\ ar_result = {}
    /\ ar_attempted = {}
    /\ symlinks = {}
    /\ PathIdle
    /\ LessonsIdle
    /\ RuntimeIdle
    /\ RestIdle

\* main: for course in courses: try: slug, info = archive(course, ...)
ArchiveCalled ==
    /\ ar_pc = "main"
    /\ ar_course < Len(Courses)
    /\ ar_course' = ar_course + 1
    /\ ar_attempted' = ar_attempted \cup {ar_course + 1}
    /\ ar_pc' = Stages[1]
    /\ staged' = {}
    /\ ar_failed' = {}
    /\ UNCHANGED <<output, before, ar_err, ar_result>>
    /\ UNCHANGED <<pathVars, lessonVars, rtVars, restVars>>

\* a stage of archive runs to its end
StageDone ==
    /\ ar_pc \in Range(Stages)
    /\ staged' = staged \cup {[name |-> n, version |-> "new"] : n \in StageOutput(ar_pc)}
    /\ ar_pc' = IF StageIndex(ar_pc) < Len(Stages) THEN Stages[StageIndex(ar_pc) + 1]
                ELSE "exists"
    /\ UNCHANGED <<output, before, ar_course, ar_err, ar_failed, ar_result, ar_attempted>>
    /\ UNCHANGED <<pathVars, lessonVars, rtVars, restVars>>

\* a stage of archive raises, having written a part of its output at most
StageRaises ==
    /\ ar_pc \in Range(Stages)
    /\ \E part \in SUBSET StageOutput(ar_pc) :
        /\ (StageOutput(ar_pc) # {} => part # StageOutput(ar_pc))
        /\ staged' = staged \cup {[name |-> n, version |-> "new"] : n \in part}
    /\ ar_err' = ar_pc
    /\ ar_pc' = "unwind"
    /\ UNCHANGED <<output, before, ar_course, ar_failed, ar_result, ar_attempted>>
    /\ UNCHANGED <<pathVars, lessonVars, rtVars, restVars>>

\* if dest_path.exists(): shutil.rmtree(dest_path) is begun
DestChecked ==
    /\ ar_pc = "exists"
    /\ ar_pc' = IF output[ThisCourse].exists THEN "rmtree" ELSE "copytree"
    /\ UNCHANGED <<output, before, ar_course, ar_err, staged, ar_failed, ar_result,
                   ar_attempted>>
    /\ UNCHANGED <<pathVars, lessonVars, rtVars, restVars>>

\* shutil.rmtree removes one entry of dest_path
RmtreeStep ==
    /\ ar_pc = "rmtree"
    /\ \E e \in output[ThisCourse].entries :
        output' = [output EXCEPT ![ThisCourse].entries = @ \ {e}]
    /\ UNCHANGED <<before, ar_course, ar_pc, ar_err, staged, ar_failed, ar_result,
                   ar_attempted>>
    /\ UNCHANGED <<pathVars, lessonVars, rtVars, restVars>>

\* shutil.rmtree removes the emptied dest_path
RmtreeDone ==
    /\ ar_pc = "rmtree"
    /\ output[ThisCourse].entries = {}
    /\ output' = [output EXCEPT ![ThisCourse] = Absent]
    /\ ar_pc' = "copytree"
    /\ UNCHANGED <<before, ar_course, ar_err, staged, ar_failed, ar_result, ar_attempted>>
    /\ UNCHANGED <<pathVars, lessonVars, rtVars, restVars>>

\* shutil.rmtree cannot remove an entry and raises
RmtreeRaises ==
    /\ ar_pc = "rmtree"
    /\ output[ThisCourse].entries # {}
    /\ ar_err' = "rmtree"
    /\ ar_pc' = "unwind"
    /\ UNCHANGED <<output, before, ar_course, staged, ar_failed, ar_result, ar_attempted>>
    /\ UNCHANGED <<pathVars, lessonVars, rtVars, restVars>>

\* dest_path.parent.mkdir(...); shutil.copytree makes dest_path
CopytreeBegins ==
    /\ ar_pc = "copytree"
    /\ output' = [output EXCEPT ![ThisCourse] = [exists |-> TRUE, entries |-> {}]]
    /\ ar_pc' = "copying"
    /\ UNCHANGED <<before, ar_course, ar_err, staged, ar_failed, ar_result, ar_attempted>>
    /\ UNCHANGED <<pathVars, lessonVars, rtVars, restVars>>

\* the entries of result_path that copytree has not come to yet
ToCopy == staged \ (output[ThisCourse].entries \cup ar_failed)

\* shutil.copytree copies one entry
CopyStep ==
    /\ ar_pc = "copying"
    /\ \E e \in ToCopy :
        output' = [output EXCEPT ![ThisCourse].entries = @ \cup {e}]
    /\ UNCHANGED <<before, ar_course, ar_pc, ar_err, staged, ar_failed, ar_result,
                   ar_attempted>>
    /\ UNCHANGED <<pathVars, lessonVars, rtVars, restVars>>

\* shutil.copytree cannot copy an entry: it notes the error and goes on
CopyStepFails ==
    /\ ar_pc = "copying"
    /\ \E e \in ToCopy : ar_failed' = ar_failed \cup {e}
    /\ UNCHANGED <<output, before, ar_course, ar_pc, ar_err, staged, ar_result,
                   ar_attempted>>
    /\ UNCHANGED <<pathVars, lessonVars, rtVars, restVars>>

\* shutil.copytree is through: it returns, or raises Error with the errors noted
CopytreeEnds ==
    /\ ar_pc = "copying"
    /\ ToCopy = {}
    /\ ar_pc' = IF ar_failed = {} THEN "leave" ELSE "unwind"
    /\ ar_err' = IF ar_failed = {} THEN ar_err ELSE "copytree"
    /\ UNCHANGED <<output, before, ar_course, staged, ar_failed, ar_result, ar_attempted>>
    /\ UNCHANGED <<pathVars, lessonVars, rtVars, restVars>>

\* the with block is left, the ExitStack removes result_path and the
\* worktree, archive returns and main stores result[slug] = info
ArchiveReturns ==
    /\ ar_pc = "leave"
    /\ staged' = {}
    /\ ar_result' = ar_result \cup {ThisCourse}
    /\ ar_pc' = "main"
    /\ UNCHANGED <<output, before, ar_course, ar_err, ar_failed, ar_attempted>>
    /\ UNCHANGED <<pathVars, lessonVars, rtVars, restVars>>

\* main: except: print(f'Error archiving ...'); raise
MainExcept == "aborted"

\* the exception leaves the with block, the ExitStack removes result_path and
\* the worktree, archive raises and main's except clause handles it
ArchiveRaises ==
    /\ ar_pc = "unwind"
    /\ staged' = {}
    /\ ar_pc' = MainExcept
    /\ UNCHANGED <<output, before, ar_course, ar_err, ar_failed, ar_result, ar_attempted>>
    /\ UNCHANGED <<pathVars, lessonVars, rtVars, restVars>>

\* main: the loop is over, print(yaml.safe_dump(result))
MainEnds ==
    /\ ar_pc = "main"
    /\ ar_course = Len(Courses)
    /\ ar_pc' = "finished"
    /\ UNCHANGED <<output, before, ar_course, ar_err, staged, ar_failed, ar_result,
                   ar_attempted>>
    /\ UNCHANGED <<pathVars, lessonVars, rtVars, restVars>>

ArchiveNext ==
    \/ ArchiveCalled \/ StageDone \/ StageRaises \/ DestChecked
    \/ RmtreeStep \/ RmtreeDone \/ RmtreeRaises
    \/ CopytreeBegins \/ CopyStep \/ CopyStepFails \/ CopytreeEnds
    \/ ArchiveReturns \/ ArchiveRaises \/ MainEnds

SpecArchive == ArchiveInit /\ [][ArchiveNext]_vars

\* C10: at every point the destination directory of a course holds what it
\* held before the run or the complete new result.
C10_DestOldOrComplete ==
    \A c \in Range(Courses) : output[c] = before[c] \/ output[c] = Archive("new")

(***************************************************************************)
(* Containment                                                             *)
(***************************************************************************)
\* p lies strictly below base
Inside(base, p) ==
    /\ p.root = base.root
    /\ Len(p.parts) > Len(base.parts)
    /\ \A i \in 1..Len(base.parts) : p.parts[i] = base.parts[i]

\* where base / end really is
Location == Resolve(symlinks, PathJoin(jp_base, jp_end))

\* where base really is
BaseLocation == Resolve(symlinks, jp_base)

HasDotDot(end) == \E i \in 1..Len(Split(end)) : Split(end)[i] = <<".", ".">>

IsAbsolute(end) == RootOf(end) # ""

JoinpathReturned == jp_pc \in {"checked", "written", "raised"}

\* C7, as stated: a fragment that has a ".." segment or is absolute makes
\* joinpath fail, and nothing is written for it.
C7_DotDotOrAbsoluteFails ==
    (JoinpathReturned /\ (HasDotDot(jp_end) \/ IsAbsolute(jp_end)))
        => (~jp_out.ok /\ jp_written = {})

\* C7, amended: a fragment whose location is not strictly below the location
\* of base makes joinpath fail, and nothing is written for it.
C7_EscapeFails ==
    (JoinpathReturned /\ ~Inside(BaseLocation, Location))
        => (~jp_out.ok /\ jp_written = {})

\* C7's case: a fragment with ".." that leaves base has been refused
C7_Witness ==
    /\ jp_pc = "raised"
    /\ HasDotDot(jp_end)
    /\ ~Inside(BaseLocation, Location)

\* C8, as stated: a fragment whose location is base or below base makes
\* joinpath succeed with a path that has base as a textual prefix.
C8_WithinSucceeds ==
    (JoinpathReturned /\ (Location = BaseLocation \/ Inside(BaseLocation, Location)))
        => (jp_out.ok /\ IsPrefix(Str(jp_base), Str(jp_out.path)))

\* C8, amended: for a base that is its own location, a fragment whose
\* location is strictly below base makes joinpath succeed with a path that
\* has base as a textual prefix.
C8_StrictlyInsideSucceeds ==
    (JoinpathReturned /\ BaseLocation = jp_base /\ Inside(jp_base, Location))
        => (jp_out.ok /\ IsPrefix(Str(jp_base), Str(jp_out.path)))

\* C8's case: a fragment with a ".." segment that stays below base was accepted
C8_Witness ==
    /\ jp_pc = "written"
    /\ HasDotDot(jp_end)
    /\ Inside(jp_base, Location)
    /\ jp_out.path \in jp_written

(***************************************************************************)
(* The reference graph of a course                                         *)
(***************************************************************************)
RECURSIVE Closure(_, _)
\* the slugs of S and every slug they reference, directly or not
Closure(w, S) ==
    CHOOSE R \in {IF T = S THEN S ELSE Closure(w, T) :
                    T \in {S \cup UNION {Refs(w, s) : s \in S}}} : TRUE

\* the slugs the course references in total (a chain of len: its len slugs)
AllSlugs(w) ==
    IF w.kind = "chain" THEN {ChainSlug(i) : i \in 1..w.len}
    ELSE Closure(w, InitialSlugs(w))

\* no slug of the course reaches itself (no slug of a chain does)
Acyclic(w) ==
    \/ w.kind = "chain"
    \/ \A s \in AllSlugs(w) : s \notin Closure(w, Refs(w, s))

RECURSIVE LevelsFrom(_, _, _)
LevelsFrom(w, front, seen) ==
    IF front = {} THEN 0
    ELSE CHOOSE n \in {1 + LevelsFrom(w, next, seen \cup front) :
                         next \in {UNION {Refs(w, s) : s \in front} \ (seen \cup front)}} : TRUE

\* the depth of the graph: the slugs of the sessions are at depth 1, the
\* slugs they reference (and no slug above does) at depth 2, and so on; a
\* chain of len has depth len
Depth(w) ==
    IF w.kind = "chain" THEN w.len ELSE LevelsFrom(w, InitialSlugs(w), {})

\* the graph is finite and known in full
FiniteWorld(w) == w.kind \in {"chain", "graph"}

\* the slugs and names of the course are plain words
PlainWorld(w) == w.kind = "chain" \/ (w.kind = "graph" /\ w.names = 1)

\* how many get_lessons calls had slug among their arguments
TimesFetched(slug) == Cardinality({i \in DOMAIN fetches : slug \in Range(fetches[i].slugs)})

\* C2: a slug that is in the resolved mapping is in the argument of no later
\* get_lessons call, whatever references it afterwards.
C2_ResolvedNeverRefetched ==
    \A i \in DOMAIN fetches : Range(fetches[i].slugs) \cap fetches[i].resolved = {}

\* C2's case: a resolved slug was referenced again by a lesson fetched in a
\* later round, and the resolution went on to its end
C2_Witness ==
    /\ ls_pc = "returned"
    /\ \E i, j \in DOMAIN fetches :
        /\ i < j
        /\ \E s \in Range(fetches[i].slugs), t \in Range(fetches[j].slugs) :
              s \in Refs(world, t) /\ s \in result

\* C3: for an acyclic graph of depth at most 50 the resolution never ends
\* with the convergence error; when it returns, the resolved mapping holds
\* exactly the slugs of the graph and each was fetched exactly once; and with
\* plain slugs and names nothing but a failing container run stops it.
C3_AcyclicResolves ==
    (FiniteWorld(world) /\ Acyclic(world) /\ Depth(world) <= MaxTries) =>
        /\ ls_err # TooDeep
        /\ (ls_pc = "returned" =>
               /\ result = AllSlugs(world)
               /\ \A s \in AllSlugs(world) : TimesFetched(s) = 1)
        /\ ((ls_pc = "raised" /\ PlainWorld(world)) => ls_err = "CalledProcessError")
        /\ (ls_pc = "for" => ~LoopExhausted(tries))

\* C3's case: a chain of depth 50 has been resolved, in 50 calls
C3_Witness ==
    /\ world.kind = "chain"
    /\ world.len = MaxTries
    /\ ls_pc = "returned"
    /\ Cardinality(result) = MaxTries
    /\ Len(fetches) = MaxTries

\* C4: when every lesson references one more lesson the resolution does
\* not return; it makes at most 50 get_lessons calls and, unless a container
\* run fails first, ends with the convergence error after exactly 50.
C4_EndlessFailsAfter50 ==
    world.kind = "endless" =>
        /\ ls_pc # "returned"
        /\ Len(fetches) <= MaxTries
        /\ (ls_pc = "raised" =>
               \/ ls_err = "CalledProcessError"
               \/ ls_err = TooDeep /\ Len(fetches) = MaxTries /\ tries = MaxTries)
        /\ ((ls_pc = "for" /\ Len(fetches) = MaxTries) => lesson_slugs # {})

\* C4's case: the convergence error after the 50th call
C4_Witness ==
    /\ world.kind = "endless"
    /\ ls_pc = "raised"
    /\ ls_err = TooDeep
    /\ Len(fetches) = MaxTries

\* C22: for a finite reference graph with a cycle (a lesson that references
\* itself, two lessons that reference each other) whose depth is at most 50
\* the resolution never ends with the convergence error and makes no more
\* calls than the graph is deep; when it returns, the resolved mapping holds
\* exactly the slugs that can be reached and each was fetched exactly once;
\* and with plain slugs and names nothing but a failing container run stops it.
C22_CyclicResolves ==
    (world.kind = "graph" /\ ~Acyclic(world) /\ Depth(world) <= MaxTries) =>
        /\ ls_err # TooDeep
        /\ Len(fetches) <= Depth(world)
        /\ (ls_pc = "returned" =>
               /\ result = AllSlugs(world)
               /\ Len(fetches) = Depth(world)
               /\ \A s \in AllSlugs(world) : TimesFetched(s) = 1)
        /\ ((ls_pc = "raised" /\ PlainWorld(world)) => ls_err = "CalledProcessError")
        /\ (ls_pc = "for" => ~LoopExhausted(tries))

\* C22's case: a course in which two lessons reference each other and a
\* third references itself has been resolved, in more than one call
C22_Witness ==
    /\ world.kind = "graph"
    /\ ls_pc = "returned"
    /\ Len(fetches) > 1
    /\ \E s, t \in result : s # t /\ t \in Refs(world, s) /\ s \in Refs(world, t)
    /\ \E u \in result : u \in Refs(world, u)

HasChar(text, c) == \E i \in 1..Len(text) : text[i] = c

\* the slugs that were in the argument of some get_lessons call
FetchedSlugs == UNION {Range(fetches[i].slugs) : i \in DOMAIN fetches}

ResultLocation == Resolve(symlinks, result_path)

\* the path of t went through the check: a file is written at a path joinpath
\* returned; a directory is made at such a path or, for the parents mkdir
\* makes and for destpath.parent, on the way from the checked base to it
Covered(t) ==
    \E c \in checked :
        \/ t.path = c.path
        \/ /\ t.op = "mkdir"
           /\ t.path \in Parents(c.path)
           /\ (t.path = c.base \/ Inside(c.base, t.path))

FirstStatic(w) == Lesson(w, <<"a">>).static_files[1]

SecondStatic(w) == Lesson(w, <<"a">>).static_files[2]

\* where a static file of the lesson lands: name.lower(), the substitution,
\* the join with the static directory and the resolution
Destination(name) ==
    Resolve(symlinks,
            PathJoin(PathJoin(PathJoin(PathJoin(ResultLocation, LessonsName), <<"a">>),
                              StaticName),
                     Sanitize(Lower(name))))

\* the two static files of the lesson have different names and one destination
SameDestination(w) ==
    /\ w.kind = "hostile"
    /\ FirstStatic(w).name # SecondStatic(w).name
    /\ Destination(FirstStatic(w).name) = Destination(SecondStatic(w).name)

\* C13: when two static files of a run have one destination, the run raises
\* at the second at the latest, the second is not copied, and no destination
\* is copied to twice.
C13_DuplicateStaticIsFatal ==
    /\ \A t, u \in touched : (t.op = "copy" /\ u.op = "copy" /\ t.path = u.path) => t = u
    /\ (SameDestination(world) /\ ls_pc \in {"returned", "raised"} /\ done_slugs # {}) =>
           /\ ls_pc = "raised"
           /\ \A t \in touched : t.op = "copy" => t.name = FirstStatic(world).name

\* C13's case: the first static file was copied and the second, with another
\* name and another source, has the same destination
C13_Witness ==
    /\ SameDestination(world)
    /\ ls_err = "ValueError: already exists"
    /\ SecondStatic(world).path = <<"t">>
    /\ \E t \in touched :
          /\ t.op = "copy"
          /\ t.path = Destination(SecondStatic(world).name)
          /\ t.src = PathJoin(Worktree, <<"s">>)

\* the given number of rounds of save_lessons are over
RoundsOver(n) == tries = n /\ ls_pc \in {"for", "returned"}

\* C17 as stated: from {"intro"}, intro linking to setup, the resolved
\* mapping holds intro and setup after one round.
C17_BothResolvedAfterOneRound ==
    (world.kind = "scenario" /\ RoundsOver(1)) => result = {Intro, Setup}

\* C17 amended: after one round the resolved mapping holds intro and the
\* slugs still to fetch are {"setup"}; after the second round the resolution
\* has returned and the resolved mapping holds intro and setup.
C17_BothResolvedAfterTwoRounds ==
    world.kind = "scenario" =>
        /\ RoundsOver(1) =>
              /\ result = {Intro}
              /\ lesson_slugs = {Setup}
              /\ ls_pc = "for"
        /\ RoundsOver(2) =>
              /\ result = {Intro, Setup}
              /\ lesson_slugs = {}
              /\ ls_pc = "returned"
              /\ Len(fetches) = 2
              /\ fetches[1].slugs = <<Intro>> /\ fetches[1].resolved = {}
              /\ fetches[2].slugs = <<Setup>> /\ fetches[2].resolved = {Intro}

\* C17's case: the scenario has been resolved
C17_Witness ==
    /\ world.kind = "scenario"
    /\ ls_pc = "returned"
    /\ Setup \in result

\* C19: no get_lessons call is made with an empty argument, so a course
\* with no lesson slug is resolved with no call and an empty result; and the
\* argument of every call is the whole set of slugs still to fetch, sorted.
C19_FetchOnlyWithFrontier ==
    /\ \A i \in DOMAIN fetches : fetches[i].slugs # <<>>
    /\ (InitialSlugs(world) = {} /\ ls_pc = "returned") => (result = {} /\ fetches = <<>>)
    /\ \A i \in DOMAIN fetches :
          /\ Range(fetches[i].slugs) = fetches[i].pending
          /\ \A j, k \in DOMAIN fetches[i].slugs :
                j < k => TextLess(fetches[i].slugs[j], fetches[i].slugs[k])

\* C23: within one resolution no content file of a page or of a solution is
\* written twice: no write of content finds its file already there (a second
\* write to the path would have been refused), and no two slugs with the
\* same lower-cased directory name are both saved.
C23_NoContentWrittenTwice ==
    /\ \A t \in touched : t.op = "write" => ~t.over
    /\ \A s, t \in result : s # t => Lower(s) # Lower(t)

\* the slugs that were pending at call i and are no longer at call j
Left(i, j) == fetches[i].pending \ fetches[j].pending

\* C24: a slug leaves the set of slugs to fetch only by being returned by a
\* get_lessons call: a slug that was asked for and left out of the answer is
\* asked for again by every later call, and the resolution of the course
\* whose lesson b is left out does not return: unless a container run fails
\* first, it ends with the convergence error after exactly 50 calls, though
\* the course has three lessons at depth two.
C24_OmittedStaysUntilConvergenceError ==
    /\ \A i, j \in DOMAIN fetches : i < j => Left(i, j) \subseteq fetches[j].resolved
    /\ \A i, j \in DOMAIN fetches :
          i < j => (Range(fetches[i].slugs) \cap Omitted(world))
                       \subseteq Range(fetches[j].slugs)
    /\ world.kind = "omits" =>
          /\ ls_pc # "returned"
          /\ Len(fetches) <= MaxTries
          /\ (ls_pc = "raised" =>
                 \/ ls_err = "CalledProcessError"
                 \/ ls_err = TooDeep /\ Len(fetches) = MaxTries /\ tries = MaxTries)
          /\ ((ls_pc = "for" /\ Len(fetches) > 1) => lesson_slugs = {<<"b">>})

\* C24's case: the lesson left out was asked for in 49 calls, the lessons
\* a and c are saved, and the convergence error ended the resolution
C24_Witness ==
    /\ world.kind = "omits"
    /\ ls_pc = "raised"
    /\ ls_err = TooDeep
    /\ result = {<<"a">>, <<"c">>}
    /\ Cardinality({i \in DOMAIN fetches : <<"b">> \in Range(fetches[i].slugs)}) = MaxTries - 1

\* C18: when main is over, archive was called for every course, whatever
\* happened to the courses before it.
C18_LaterCoursesAttempted ==
    ar_pc \in {"finished", MainExcept} => ar_attempted = DOMAIN Courses

=============================================================================
